---- MODULE Spec2Model ----
(***************************************************************************)
(* Distance-matrix tree construction of decenttree:                        *)
(*   - UPGMA_Matrix (src/upgma.h): join loop over a square matrix that is  *)
(*     compacted by swap-with-last, cluster forest, three-way finish;      *)
(*   - StitchupMatrix / StitchupGraph (src/stitchup.cpp): heap of edges,   *)
(*     staples, union of leaf sets, removal of degree-2 nodes, Newick      *)
(*     writer.                                                             *)
(* Distances (C++ float / double) are modelled as exact rationals <<n,d>>  *)
(* in lowest terms with d > 0.                                             *)
(***************************************************************************)
EXTENDS Integers, Sequences, FiniteSets, TLC

VARIABLES
    pc,              \* position of the caller in load / constructTree / write
    names,           \* the taxon names handed to loadMatrix
    matrix,          \* the flat input array handed to loadMatrix (row*n+col)
    row_count,       \* SquareMatrix::row_count (the rank)
    rows,            \* SquareMatrix::rows, the active row_count x row_count cells
    rowTotals,       \* SquareMatrix::rowTotals
    rowToCluster,    \* UPGMA_Matrix::rowToCluster
    clusters,        \* UPGMA_Matrix::clusters (ClusterTree)
    rowMinima,       \* UPGMA_Matrix::rowMinima
    best,            \* local Position best of UPGMA_Matrix::constructTree
    joinLog,         \* history: the (a, b, value) of every call of cluster
    threads,         \* number of OpenMP worker threads of the row scan
    nextRow,         \* next row the dynamic schedule hands out
    scanning,        \* rows handed to a worker whose scan has not finished
    lastHack,        \* the file-scope counter lastHack of stitchup.cpp
    heap,            \* the LengthSortedStitch entries still in the min-heap
    heapSize,        \* local heapSize of StitchupMatrix::constructTree
    iterations,      \* local iterations of StitchupMatrix::constructTree
    join,            \* loop variable join of StitchupMatrix::constructTree
    leafNames,       \* StitchupGraph::leafNames
    stitches,        \* StitchupGraph::stitches
    taxonToSetNumber,   \* StitchupGraph::taxonToSetNumber
    taxonToNodeNumber,  \* StitchupGraph::taxonToNodeNumber
    taxonToDistance,    \* StitchupGraph::taxonToDistance
    setMembers,      \* StitchupGraph::setMembers
    nodeCount,       \* StitchupGraph::nodeCount
    outputs,         \* what writeTreeToOpenFile wrote, one entry per build
    py,              \* the call of pydecenttree_constructTree in progress
    mergeJob,        \* leaf pairs handed to mergeSets: all of them, and those still to merge
    vec,             \* one row handed to the scalar and the vectorized row scan
    ntcj,            \* the locals of NTCJ's constructTree: heap, iterations, taxonToRow
    flat             \* a FlatMatrix: rowCount, sequenceNames, the buffer, the cells read

upgmaVars == <<row_count, rows, rowTotals, rowToCluster, clusters, rowMinima,
               best, joinLog>>
scanVars  == <<threads, nextRow, scanning>>
graphVars == <<leafNames, stitches, taxonToSetNumber, taxonToNodeNumber,
               taxonToDistance, setMembers, nodeCount>>
stitchVars == <<lastHack, heap, heapSize, iterations, join, graphVars, outputs>>
lateVars  == <<ntcj, flat>>
extraVars == <<mergeJob, vec, lateVars>>
vars      == <<pc, names, matrix, upgmaVars, scanVars, stitchVars, py, extraVars>>

----------------------------------------------------------------------------
(* Bounds of the model *)

MaxN == 5

MaxParN == 4

MaxThreads == 2

MaxLeaves == 4

Distances == {1, 2}

----------------------------------------------------------------------------
(* Exact arithmetic standing for the scalar type T *)

RECURSIVE Gcd(_, _)
Gcd(a, b) == IF b = 0 THEN a ELSE Gcd(b, a % b)

Abs(x) == IF x < 0 THEN -x ELSE x

Rat(n, d) ==
    LET g == Gcd(Abs(n), Abs(d))
        s == IF d < 0 THEN -1 ELSE 1
    IN  <<(s * n) \div g, (s * d) \div g>>

FromInt(i) == <<i, 1>>

RAdd(x, y) == Rat(x[1] * y[2] + y[1] * x[2], x[2] * y[2])
RSub(x, y) == Rat(x[1] * y[2] - y[1] * x[2], x[2] * y[2])
RMul(x, y) == Rat(x[1] * y[1], x[2] * y[2])
RDiv(x, y) == Rat(x[1] * y[2], x[2] * y[1])
RLess(x, y) == x[1] * y[2] < y[1] * x[2]
RLeq(x, y)  == x[1] * y[2] <= y[1] * x[2]

Zero == FromInt(0)
Half == Rat(1, 2)

\* 1e+36 in the source: larger than every distance the bounded inputs give
infiniteDistance == FromInt(1000000)


----------------------------------------------------------------------------
(* size_t arithmetic modulo 2^64, a number being its eight bytes, lowest first *)

One64 == <<1, 0, 0, 0, 0, 0, 0, 0>>

\* 2862933555777941757UL = 0x27BB2EE687B0B0FD
HackMultiplier == <<253, 176, 176, 135, 230, 46, 187, 39>>

\* 3037000493UL = 0xB504F32D
HackIncrement == <<45, 243, 4, 181, 0, 0, 0, 0>>

RECURSIVE ColumnSum(_, _, _, _)
ColumnSum(x, y, k, i) ==
    IF i > k THEN 0 ELSE x[i] * y[k + 1 - i] + ColumnSum(x, y, k, i + 1)

RECURSIVE MulAddBytes(_, _, _, _, _)
MulAddBytes(x, y, z, k, carry) ==
    IF k > 8 THEN <<>>
    ELSE LET t == ColumnSum(x, y, k, 1) + z[k] + carry
         IN  <<t % 256>> \o MulAddBytes(x, y, z, k + 1, t \div 256)

\* x * y + z modulo 2^64
MulAdd64(x, y, z) == MulAddBytes(x, y, z, 1, 0)

RECURSIVE Less64From(_, _, _)
Less64From(x, y, k) ==
    IF k = 0 THEN FALSE
    ELSE IF x[k] # y[k] THEN x[k] < y[k]
    ELSE Less64From(x, y, k - 1)

Less64(x, y) == Less64From(x, y, 8)

----------------------------------------------------------------------------
(* Inputs: names and a flat, symmetric, zero-diagonal n*n array *)

NamePool == <<"A", "B", "C", "D", "E", "F", "G", "H">>

Pairs(n) == {p \in (0..n-1) \X (0..n-1) : p[2] < p[1]}

\* the flat array whose lower triangle is f and whose upper triangle mirrors it
FlatSymmetric(n, f) ==
    [i \in 0..(n*n - 1) |->
        LET r == i \div n
            c == i % n
        IN  IF r = c THEN 0
            ELSE IF c < r THEN f[<<r, c>>] ELSE f[<<c, r>>]]

\* scenario 2 of the specification: AB=2, CD=2, every other pair 4
Ultrametric4 ==
    FlatSymmetric(4, [p \in Pairs(4) |->
        IF p = <<1, 0>> \/ p = <<3, 2>> THEN 2 ELSE 4])

Equidistant(n) == FlatSymmetric(n, [p \in Pairs(n) |-> 1])

Inputs ==
    [n : {4}, m : {Ultrametric4}] \cup
    UNION {[n : {k}, m : {FlatSymmetric(k, f) : f \in [Pairs(k) -> Distances]}]
           : k \in 3..MaxN}

\* five taxa: a close pair, a close triple, distance 2 between the groups
TwoGroups5 ==
    FlatSymmetric(5, [p \in Pairs(5) |->
        IF p[1] <= 1 \/ p[2] >= 2 THEN 1 ELSE 2])

ParInputs ==
    [n : {5}, m : {Equidistant(5), TwoGroups5}] \cup
    UNION {[n : {k}, m : {FlatSymmetric(k, f) : f \in [Pairs(k) -> Distances]}]
           : k \in 3..MaxParN}

----------------------------------------------------------------------------
(* SquareMatrix (distancematrix.h) and ClusterTree (clustertree.h) *)

\* SquareMatrix::loadDistancesFromFlatArray: n*n doubles cast to T
loadDistancesFromFlatArray(n, m) ==
    [r \in 0..n-1 |-> [c \in 0..n-1 |-> FromInt(m[r * n + c])]]

RECURSIVE SumRow(_, _, _, _)
SumRow(rowData, r, c, rc) ==
    IF c >= rc THEN Zero
    ELSE RAdd(IF c = r THEN Zero ELSE rowData[c], SumRow(rowData, r, c + 1, rc))

\* SquareMatrix::calculateRowTotals: T[i] = sum over k # i of M[i][k]
calculateRowTotals(M, rc) == [r \in 0..rc-1 |-> SumRow(M[r], r, 0, rc)]

\* SquareMatrix::removeRowAndColumn(k): the last row and column take the
\* place of row and column k, and the rank goes down by one
removeRowAndColumn(st, k) ==
    LET L     == st.row_count - 1
        pi(i) == IF i = k THEN L ELSE i
    IN  [st EXCEPT
            !.rows      = [i \in 0..L-1 |-> [j \in 0..L-1 |-> st.rows[pi(i)][pi(j)]]],
            !.rowTotals = [i \in 0..L-1 |-> st.rowTotals[pi(i)]],
            !.row_count = L]

Append0(f, x) ==
    LET k == Cardinality(DOMAIN f)
    IN  [i \in 0..k |-> IF i < k THEN f[i] ELSE x]

Link(c, d) == [clusterIndex |-> c, linkDistance |-> d]

\* ClusterTree::addCluster(name): a leaf cluster
addLeafCluster(cl, name) ==
    Append0(cl, [countOfExteriorNodes |-> 1, name |-> name, links |-> <<>>])

\* ClusterTree::addCluster(a, aLength, b, bLength)
addCluster2(cl, a, aLength, b, bLength) ==
    Append0(cl, [countOfExteriorNodes |->
                     cl[a].countOfExteriorNodes + cl[b].countOfExteriorNodes,
                 name  |-> "",
                 links |-> <<Link(a, aLength), Link(b, bLength)>>])

\* ClusterTree::addCluster(a, aLength, b, bLength, c, cLength)
addCluster3(cl, a, aLength, b, bLength, c, cLength) ==
    Append0(cl, [countOfExteriorNodes |->
                     cl[a].countOfExteriorNodes + cl[b].countOfExteriorNodes
                     + cl[c].countOfExteriorNodes,
                 name  |-> "",
                 links |-> <<Link(a, aLength), Link(b, bLength), Link(c, cLength)>>])

RECURSIVE addLeafClusters(_, _, _)
addLeafClusters(cl, nm, i) ==
    IF i > Len(nm) THEN cl ELSE addLeafClusters(addLeafCluster(cl, nm[i]), nm, i + 1)

----------------------------------------------------------------------------
(* UPGMA_Matrix (upgma.h) *)

\* Position(): every member zero
DefaultPosition == [row |-> 0, column |-> 0, value |-> Zero, imbalance |-> 0]

\* Position(r, c, v, imbalance): the initializer list sets row, column and
\* value only, the member imbalance is left uninitialized (written -1 here,
\* a value the size_t member cannot hold)
Position4(r, c, v, imbalance) ==
    [row |-> r, column |-> c, value |-> v, imbalance |-> -1]

\* the values a read of the uninitialized member can give
Indeterminate == {0, 1}

\* the part of the object that load and the join loop work on
UpgmaState ==
    [row_count |-> row_count, rows |-> rows, rowTotals |-> rowTotals,
     rowToCluster |-> rowToCluster, clusters |-> clusters]

\* UPGMA_Matrix::getImbalance
getImbalance(st, rowA, rowB) ==
    LET sizeA == st.clusters[st.rowToCluster[rowA]].countOfExteriorNodes
        sizeB == st.clusters[st.rowToCluster[rowB]].countOfExteriorNodes
    IN  IF sizeA < sizeB THEN sizeB - sizeA ELSE sizeA - sizeB

\* a column loop in which a value as small as the best replaces it
RECURSIVE ScanColumnsLast(_, _, _, _, _)
ScanColumnsLast(rowData, row, col, bestVrc, bestColumn) ==
    IF col >= row THEN <<bestVrc, bestColumn>>
    ELSE LET v == rowData[col]
         IN  IF RLeq(v, bestVrc)
             THEN ScanColumnsLast(rowData, row, col + 1, v, col)
             ELSE ScanColumnsLast(rowData, row, col + 1, bestVrc, bestColumn)

\* the column loop of getRowMinima: a strictly smaller value replaces the best
RECURSIVE ScanColumns(_, _, _, _, _)
ScanColumns(rowData, row, col, bestVrc, bestColumn) ==
    IF col >= row THEN <<bestVrc, bestColumn>>
    ELSE LET v == rowData[col]
         IN  IF RLess(v, bestVrc)
             THEN ScanColumns(rowData, row, col + 1, v, col)
             ELSE ScanColumns(rowData, row, col + 1, bestVrc, bestColumn)

\* a row scan that looks at column 0 only
RowMinimumFirstColumn(st, row) ==
    Position4(row, 0, st.rows[row][0], getImbalance(st, row, 0))

\* the body of the row loop of getRowMinima: what is stored in rowMinima[row]
RowMinimum(st, row) ==
    LET s == ScanColumns(st.rows[row], row, 0, infiniteDistance, 0)
    IN  Position4(row, s[2], s[1], getImbalance(st, row, s[2]))

\* rowMinima.resize(row_count); rowMinima[0].value = infiniteDistance
ResizeRowMinima(rm, rc) ==
    [r \in 0..rc-1 |->
        IF r = 0
        THEN [(IF 0 \in DOMAIN rm THEN rm[0] ELSE DefaultPosition)
                 EXCEPT !.value = infiniteDistance]
        ELSE IF r \in DOMAIN rm THEN rm[r] ELSE DefaultPosition]

\* UPGMA_Matrix::getRowMinima, every row scanned
getRowMinima(rm, st) ==
    [r \in 0..st.row_count-1 |->
        IF r = 0 THEN ResizeRowMinima(rm, st.row_count)[0] ELSE RowMinimum(st, r)]

\* a row loop that takes the minimum of every row it sees, whatever its value
RECURSIVE PickRowsAnyValue(_, _, _, _)
PickRowsAnyValue(rm, rc, r, b) ==
    IF r >= rc THEN b
    ELSE LET here == rm[r]
         IN  PickRowsAnyValue(rm, rc, r + 1,
                              IF here.row # here.column THEN here ELSE b)

\* the row loop of getMinimumEntry, rows in increasing order
RECURSIVE PickRows(_, _, _, _)
PickRows(rm, rc, r, b) ==
    IF r >= rc THEN b
    ELSE LET here == rm[r]
         IN  PickRows(rm, rc, r + 1,
                      IF RLess(here.value, b.value) /\ here.row # here.column
                      THEN here ELSE b)

\* UPGMA_Matrix::getMinimumEntry, after getRowMinima has filled rm
getMinimumEntry(b, rm, rc) ==
    PickRows(rm, rc, 0, [b EXCEPT !.value = infiniteDistance])

\* a cluster that forgets to put the new cluster into row a
remapRowsLastOnly(r2c, a, b, rc, newCluster) ==
    [r2c EXCEPT ![b] = r2c[rc - 1]]

\* a cluster that forgets to move the last row's cluster into row b
remapRowsKeepB(r2c, a, b, rc, newCluster) ==
    [r2c EXCEPT ![a] = newCluster]

\* cluster: rowToCluster[a] = clusters.size()-1;
\*          rowToCluster[b] = rowToCluster[row_count-1]
remapRows(r2c, a, b, rc, newCluster) ==
    LET r2c1 == [r2c EXCEPT ![a] = newCluster]
    IN  [r2c1 EXCEPT ![b] = r2c1[rc - 1]]

\* a loop that writes rowA[i] and forgets the cell rows[i][a]
MergeRowsRowOnly(M, rc, a, b, lambda, mu) ==
    [i \in 0..rc-1 |-> [j \in 0..rc-1 |->
        IF i = a /\ j # a /\ j # b
        THEN RAdd(RMul(lambda, M[a][j]), RMul(mu, M[b][j]))
        ELSE M[i][j]]]

\* the loop of cluster: Dci = lambda * Dai + mu * Dbi is written to
\* rowA[i] and to rows[i][a] for every i other than a and b
MergeRows(M, rc, a, b, lambda, mu) ==
    LET Dc(i) == RAdd(RMul(lambda, M[a][i]), RMul(mu, M[b][i]))
    IN  [i \in 0..rc-1 |-> [j \in 0..rc-1 |->
            IF i = a /\ j # a /\ j # b THEN Dc(j)
            ELSE IF j = a /\ i # a /\ i # b THEN Dc(i)
            ELSE M[i][j]]]

\* UPGMA_Matrix::cluster(a, b)
cluster(st, a, b) ==
    LET aLength == RMul(st.rows[b][a], Half)
        bLength == aLength
        aCount  == st.clusters[st.rowToCluster[a]].countOfExteriorNodes
        bCount  == st.clusters[st.rowToCluster[b]].countOfExteriorNodes
        tCount  == aCount + bCount
        lambda  == Rat(aCount, tCount)
        mu      == RSub(FromInt(1), lambda)
        rc      == st.row_count
        merged  == MergeRows(st.rows, rc, a, b, lambda, mu)
        cl      == addCluster2(st.clusters, st.rowToCluster[a], aLength,
                                            st.rowToCluster[b], bLength)
    IN  removeRowAndColumn(
            [st EXCEPT !.rows = merged, !.clusters = cl,
                       !.rowToCluster = remapRows(st.rowToCluster, a, b, rc,
                                                  Cardinality(DOMAIN cl) - 1)], b)

\* a finishClustering that leaves the rank as it found it
finishClusteringKeepRank(st) ==
    [st EXCEPT !.clusters = addCluster3(st.clusters, st.rowToCluster[0], Zero,
                                        st.rowToCluster[1], Zero,
                                        st.rowToCluster[2], Zero)]

\* UPGMA_Matrix::finishClustering
finishClustering(st) ==
    LET R(i)        == st.rowToCluster[i]
        count(i)    == st.clusters[R(i)].countOfExteriorNodes
        denominator == count(0) + count(1) + count(2)
        weights(i)  == Rat(count(i), 2 * denominator)
        M           == st.rows
    IN  [st EXCEPT
          !.clusters = addCluster3(st.clusters,
              R(0), RAdd(RMul(weights(1), M[0][1]), RMul(weights(2), M[0][2])),
              R(1), RAdd(RMul(weights(0), M[0][1]), RMul(weights(2), M[1][2])),
              R(2), RAdd(RMul(weights(0), M[0][2]), RMul(weights(1), M[1][2]))),
          !.row_count = 0]

\* UPGMA_Matrix::loadMatrix(names, matrix)
loadMatrix(nm, m) ==
    LET n == Len(nm)
        M == loadDistancesFromFlatArray(n, m)
    IN  [row_count    |-> n,
         rows         |-> M,
         rowTotals    |-> calculateRowTotals(M, n),
         rowToCluster |-> [r \in 0..n-1 |-> r],
         clusters     |-> addLeafClusters(<<>>, nm, 1)]

SetState(st) ==
    /\ row_count'    = st.row_count
    /\ rows'         = st.rows
    /\ rowTotals'    = st.rowTotals
    /\ rowToCluster' = st.rowToCluster
    /\ clusters'     = st.clusters

\* what best holds after "best = here" copied an uninitialized imbalance
ReadPosition(p) ==
    IF p.imbalance = -1
    THEN {[p EXCEPT !.imbalance = g] : g \in Indeterminate}
    ELSE {p}

----------------------------------------------------------------------------
(* Specification Spec: one UPGMA build, one step per pass of the join loop *)

\* no call of the Python binding is in progress
PyIdle == [stage |-> "idle"]

\* no NTCJ build is in progress and no FlatMatrix exists
LateIdle ==
    /\ ntcj = [stage |-> "idle"]
    /\ flat = [stage |-> "idle"]

\* no pairs are being merged and no row is being scanned on its own
ExtraIdle ==
    /\ mergeJob = [pairs |-> {}, pending |-> {}]
    /\ vec = [stage |-> "idle"]
    /\ LateIdle

\* the fields of the stitch-up builder before any load
StitchIdle ==
    /\ lastHack = One64
    /\ heap = {}
    /\ heapSize = 0
    /\ iterations = 0
    /\ join = 0
    /\ leafNames = <<>>
    /\ stitches = {}
    /\ taxonToSetNumber = <<>>
    /\ taxonToNodeNumber = <<>>
    /\ taxonToDistance = <<>>
    /\ setMembers = <<>>
    /\ nodeCount = 0
    /\ outputs = <<>>

Init ==
    /\ pc = "start"
    /\ \E in \in Inputs :
          /\ names  = SubSeq(NamePool, 1, in.n)
          /\ matrix = in.m
    /\ row_count = 0
    /\ rows = <<>>
    /\ rowTotals = <<>>
    /\ rowToCluster = <<>>
    /\ clusters = <<>>
    /\ rowMinima = <<>>
    /\ best = DefaultPosition
    /\ joinLog = <<>>
    /\ threads = 1
    /\ nextRow = 0
    /\ scanning = {}
    /\ StitchIdle
    /\ py = PyIdle
    /\ ExtraIdle

LoadMatrix ==
    /\ pc = "start"
    /\ SetState(loadMatrix(names, matrix))
    /\ pc' = "loaded"
    /\ UNCHANGED <<py, extraVars, names, matrix, rowMinima, best, joinLog, scanVars, stitchVars>>

\* constructTree up to its loop: Position<T> best
BeginConstructTree ==
    /\ pc = "loaded"
    /\ best' = DefaultPosition
    /\ pc' = "loop"
    /\ UNCHANGED <<py, extraVars, names, matrix, row_count, rows, rowTotals, rowToCluster,
                   clusters, rowMinima, joinLog, scanVars, stitchVars>>

\* one pass of the loop: getMinimumEntry(best); cluster(best.column, best.row)
JoinPass ==
    /\ pc = "loop"
    /\ 3 < row_count
    /\ LET rm == getRowMinima(rowMinima, UpgmaState)
       IN  /\ rowMinima' = rm
           /\ \E b \in ReadPosition(getMinimumEntry(best, rm, row_count)) :
                 /\ best' = b
                 /\ SetState(cluster(UpgmaState, b.column, b.row))
                 /\ joinLog' = Append(joinLog, <<b.column, b.row, b.value>>)
    /\ UNCHANGED <<py, extraVars, pc, names, matrix, scanVars, stitchVars>>

FinishClustering ==
    /\ pc = "loop"
    /\ ~(3 < row_count)
    /\ SetState(finishClustering(UpgmaState))
    /\ pc' = "done"
    /\ UNCHANGED <<py, extraVars, names, matrix, rowMinima, best, joinLog, scanVars, stitchVars>>

Next ==
    \/ LoadMatrix
    \/ BeginConstructTree
    \/ JoinPass
    \/ FinishClustering

Spec == Init /\ [][Next]_vars

----------------------------------------------------------------------------
(* Specification SpecPar: the same build with the row loop of getRowMinima    *)
(* run by up to `threads` workers under schedule(dynamic): rows are handed   *)
(* out in increasing order and their scans finish in any order.              *)

InitPar ==
    /\ pc = "start"
    /\ \E in \in ParInputs :
          /\ names  = SubSeq(NamePool, 1, in.n)
          /\ matrix = in.m
    /\ row_count = 0
    /\ rows = <<>>
    /\ rowTotals = <<>>
    /\ rowToCluster = <<>>
    /\ clusters = <<>>
    /\ rowMinima = <<>>
    /\ best = DefaultPosition
    /\ joinLog = <<>>
    /\ threads \in 1..MaxThreads
    /\ nextRow = 0
    /\ scanning = {}
    /\ StitchIdle
    /\ py = PyIdle
    /\ ExtraIdle

\* a worker that stores its result at the row the schedule handed out last
StoreRowMinimumShared(rm, row, handedOut, pos) ==
    [rm EXCEPT ![handedOut] = pos]

\* rowMinima[row] = Position<T>(row, bestColumn, bestVrc, ...)
StoreRowMinimum(rm, row, handedOut, pos) ==
    [rm EXCEPT ![row] = pos]

\* getMinimumEntry calls getRowMinima: resize, rowMinima[0].value, loop start
BeginScan ==
    /\ pc = "loop"
    /\ 3 < row_count
    /\ rowMinima' = ResizeRowMinima(rowMinima, row_count)
    /\ nextRow' = 1
    /\ scanning' = {}
    /\ pc' = "scan"
    /\ UNCHANGED <<py, extraVars, names, matrix, row_count, rows, rowTotals, rowToCluster,
                   clusters, best, joinLog, threads, stitchVars>>

\* an idle worker takes the next row of the loop
ClaimRow ==
    /\ pc = "scan"
    /\ nextRow < row_count
    /\ Cardinality(scanning) < threads
    /\ scanning' = scanning \cup {nextRow}
    /\ nextRow' = nextRow + 1
    /\ UNCHANGED <<py, extraVars, pc, names, matrix, upgmaVars, threads, stitchVars>>

\* a worker finishes the loop body for its row
FinishRow(row) ==
    /\ pc = "scan"
    /\ row \in scanning
    /\ rowMinima' = StoreRowMinimum(rowMinima, row, nextRow - 1,
                                    RowMinimum(UpgmaState, row))
    /\ scanning' = scanning \ {row}
    /\ UNCHANGED <<py, extraVars, pc, names, matrix, row_count, rows, rowTotals, rowToCluster,
                   clusters, best, joinLog, threads, nextRow, stitchVars>>

\* after the loop's barrier: the row loop of getMinimumEntry, then cluster
PickAndCluster ==
    /\ pc = "scan"
    /\ nextRow = row_count
    /\ scanning = {}
    /\ StitchIdle
    /\ \E b \in ReadPosition(getMinimumEntry(best, rowMinima, row_count)) :
          /\ best' = b
          /\ SetState(cluster(UpgmaState, b.column, b.row))
          /\ joinLog' = Append(joinLog, <<b.column, b.row, b.value>>)
    /\ pc' = "loop"
    /\ UNCHANGED <<py, extraVars, names, matrix, rowMinima, scanVars, stitchVars>>

NextPar ==
    \/ LoadMatrix
    \/ BeginConstructTree
    \/ BeginScan
    \/ ClaimRow
    \/ \E row \in 1..MaxN : FinishRow(row)
    \/ PickAndCluster
    \/ FinishClustering

SpecPar == InitPar /\ [][NextPar]_vars

----------------------------------------------------------------------------
(* Stitch, LengthSortedStitch and StitchupGraph (stitchup.cpp) *)

Stitch(sourceIndex, destinationIndex, edgeLength) ==
    [source |-> sourceIndex, destination |-> destinationIndex, length |-> edgeLength]

\* Stitch::operator<: by source, then by destination
StitchLess(l, r) ==
    IF l.source < r.source THEN TRUE
    ELSE IF r.source < l.source THEN FALSE
    ELSE l.destination < r.destination

LengthSortedLessHackOnly(l, r) == Less64(l.hack, r.hack)

\* LengthSortedStitch::operator<: by length, then by hack
LengthSortedLess(l, r) ==
    IF RLess(l.length, r.length) THEN TRUE
    ELSE IF RLess(r.length, l.length) THEN FALSE
    ELSE Less64(l.hack, r.hack)

\* lastHack = lastHack * 2862933555777941757UL + 3037000493UL
NextHack(h) == MulAdd64(h, HackMultiplier, HackIncrement)

STAPLE_ARCH == Rat(1, 3)
STAPLE_LEG  == RMul(Half, RSub(FromInt(1), STAPLE_ARCH))

\* std::set<Stitch>::insert: an element equivalent to one in the set is dropped
InsertStitch(S, e) ==
    IF \E o \in S : ~StitchLess(o, e) /\ ~StitchLess(e, o) THEN S ELSE S \cup {e}

\* the elements of a std::set<Stitch> in iteration order, numbered from 0
RECURSIVE SortedFrom(_, _)
SortedFrom(S, k) ==
    IF S = {} THEN <<>>
    ELSE LET m == CHOOSE e \in S : \A o \in S \ {e} : StitchLess(e, o)
         IN  (k :> m) @@ SortedFrom(S \ {m}, k + 1)

SortedStitches(S) == SortedFrom(S, 0)

GraphState ==
    [leafNames |-> leafNames, stitches |-> stitches,
     taxonToSetNumber |-> taxonToSetNumber, taxonToNodeNumber |-> taxonToNodeNumber,
     taxonToDistance |-> taxonToDistance, setMembers |-> setMembers,
     nodeCount |-> nodeCount]

\* StitchupGraph::clear
EmptyGraph ==
    [leafNames |-> <<>>, stitches |-> {}, taxonToSetNumber |-> <<>>,
     taxonToNodeNumber |-> <<>>, taxonToDistance |-> <<>>, setMembers |-> <<>>,
     nodeCount |-> 0]

\* StitchupGraph::addLeaf
addLeaf(g, name) ==
    [g EXCEPT !.leafNames         = Append0(g.leafNames, name),
              !.taxonToSetNumber  = Append0(g.taxonToSetNumber, g.nodeCount),
              !.taxonToNodeNumber = Append0(g.taxonToNodeNumber, g.nodeCount),
              !.taxonToDistance   = Append0(g.taxonToDistance, Zero),
              !.setMembers        = Append0(g.setMembers, <<g.nodeCount>>),
              !.nodeCount         = g.nodeCount + 1]

RECURSIVE addLeaves(_, _, _)
addLeaves(g, nm, i) ==
    IF i > Len(nm) THEN g ELSE addLeaves(addLeaf(g, nm[i]), nm, i + 1)

\* a test that takes every pair of leaves to be in different sets
areLeavesInSameSetNever(g, leafA, leafB) == FALSE

\* StitchupGraph::areLeavesInSameSet
areLeavesInSameSet(g, leafA, leafB) ==
    g.taxonToSetNumber[leafA] = g.taxonToSetNumber[leafB]

\* a link stored in one direction only
stitchLinkOneWay(S, nodeA, nodeB, length) ==
    InsertStitch(S, Stitch(nodeA, nodeB, length))

\* StitchupGraph::stitchLink
stitchLink(S, nodeA, nodeB, length) ==
    InsertStitch(InsertStitch(S, Stitch(nodeA, nodeB, length)),
                 Stitch(nodeB, nodeA, length))

SeqToSet(q) == {q[k] : k \in DOMAIN q}

\* a merge that moves the members and leaves their set numbers as they were
mergeSetsNoRenumber(g, setA, setB) ==
    IF setA = setB THEN g
    ELSE [g EXCEPT !.setMembers = [g.setMembers EXCEPT
                                      ![setA] = g.setMembers[setA] \o g.setMembers[setB],
                                      ![setB] = <<>>]]

\* StitchupGraph::mergeSets
mergeSets(g, setA, setB) ==
    IF setA = setB THEN g
    ELSE LET membersA == g.setMembers[setA]
             membersB == g.setMembers[setB]
         IN  IF Len(membersA) < Len(membersB)
             THEN [g EXCEPT
                     !.taxonToSetNumber =
                         [t \in DOMAIN g.taxonToSetNumber |->
                             IF t \in SeqToSet(membersA) THEN setB
                             ELSE g.taxonToSetNumber[t]],
                     !.setMembers = [g.setMembers EXCEPT
                                        ![setB] = membersB \o membersA,
                                        ![setA] = <<>>]]
             ELSE [g EXCEPT
                     !.taxonToSetNumber =
                         [t \in DOMAIN g.taxonToSetNumber |->
                             IF t \in SeqToSet(membersB) THEN setA
                             ELSE g.taxonToSetNumber[t]],
                     !.setMembers = [g.setMembers EXCEPT
                                        ![setA] = membersA \o membersB,
                                        ![setB] = <<>>]]

\* StitchupGraph::staple
staple(g, leafA, leafB, length) ==
    LET interiorA  == g.nodeCount
        legLengthA == RMul(RSub(length, g.taxonToDistance[leafA]), STAPLE_LEG)
        g1 == [g EXCEPT
                 !.stitches = stitchLink(g.stitches, g.taxonToNodeNumber[leafA],
                                         interiorA, legLengthA),
                 !.taxonToNodeNumber = [g.taxonToNodeNumber EXCEPT ![leafA] = interiorA],
                 !.taxonToDistance   = [g.taxonToDistance EXCEPT ![leafA] = legLengthA],
                 !.nodeCount = g.nodeCount + 1]
        interiorB  == g1.nodeCount
        legLengthB == RMul(RSub(length, g1.taxonToDistance[leafB]), STAPLE_LEG)
        g2 == [g1 EXCEPT
                 !.stitches = stitchLink(g1.stitches, g1.taxonToNodeNumber[leafB],
                                         interiorB, legLengthB),
                 !.taxonToNodeNumber = [g1.taxonToNodeNumber EXCEPT ![leafB] = interiorB],
                 !.taxonToDistance   = [g1.taxonToDistance EXCEPT ![leafB] = legLengthB],
                 !.nodeCount = g1.nodeCount + 1]
        g3 == [g2 EXCEPT
                 !.stitches = stitchLink(g2.stitches, interiorA, interiorB,
                                         RMul(length, STAPLE_ARCH))]
    IN  mergeSets(g3, g3.taxonToSetNumber[leafA], g3.taxonToSetNumber[leafB])

\* a first loop that keeps the replacement of every node it leaves
CloseNodeKeep(acc) == acc

\* removeThroughThroughNodes, first loop, on reaching the first stitch of the
\* next node: a node left with a degree other than 2 is replaced by itself
CloseNode(acc) ==
    IF acc.node # -1 /\ acc.degree # 2
    THEN [acc EXCEPT !.replacements[acc.node] = acc.node,
                     !.replacementLengths[acc.node] = Zero]
    ELSE acc

\* removeThroughThroughNodes, after the first loop: the same for the last node
CloseLastNode(acc) ==
    IF acc.degree # 2 /\ acc.node # -1
    THEN [acc EXCEPT !.replacements[acc.node] = acc.node,
                     !.replacementLengths[acc.node] = Zero]
    ELSE acc

\* removeThroughThroughNodes, first loop: acc holds the source node of the
\* stitches seen so far, its degree, and the two replacement tables
RECURSIVE FindReplacements(_, _, _)
FindReplacements(sv, x, acc) ==
    IF x \notin DOMAIN sv THEN CloseLastNode(acc)
    ELSE LET it == sv[x]
         IN  IF it.source # acc.node
             THEN LET closed == CloseNode(acc)
                      opened == [closed EXCEPT !.node = it.source, !.degree = 1]
                  IN  FindReplacements(sv, x + 1,
                        IF it.destination < it.source
                        THEN [opened EXCEPT
                                !.replacements[it.source] = it.destination,
                                !.replacementLengths[it.source] = it.length]
                        ELSE opened)
             ELSE FindReplacements(sv, x + 1, [acc EXCEPT !.degree = acc.degree + 1])

\* a second loop that keeps the length of each stitch it rewrites
RECURSIVE RewriteStitchesNoSum(_, _, _, _)
RewriteStitchesNoSum(sv, x, acc, S) ==
    IF x \notin DOMAIN sv THEN S
    ELSE LET it     == sv[x]
             source == acc.replacements[it.source]
             dest   == acc.replacements[it.destination]
         IN  RewriteStitchesNoSum(sv, x + 1, acc,
                 IF source # dest THEN InsertStitch(S, Stitch(source, dest, it.length))
                 ELSE S)

\* removeThroughThroughNodes, second loop: the old stitches rewritten in order
RECURSIVE RewriteStitches(_, _, _, _)
RewriteStitches(sv, x, acc, S) ==
    IF x \notin DOMAIN sv THEN S
    ELSE LET it     == sv[x]
             source == acc.replacements[it.source]
             dest   == acc.replacements[it.destination]
             length == RAdd(RAdd(it.length, acc.replacementLengths[it.source]),
                            acc.replacementLengths[it.destination])
         IN  RewriteStitches(sv, x + 1, acc,
                 IF source # dest THEN InsertStitch(S, Stitch(source, dest, length))
                 ELSE S)

\* StitchupGraph::removeThroughThroughNodes, as a function of the stitches
removeThroughThroughNodes(S, nc) ==
    LET sv  == SortedStitches(S)
        acc == FindReplacements(sv, 0,
                   [node |-> -1, degree |-> 0,
                    replacements       |-> [n \in 0..nc-1 |-> n],
                    replacementLengths |-> [n \in 0..nc-1 |-> Zero]])
    IN  RewriteStitches(sv, 0, acc, {})

\* the Newick text as tokens; "(" and ")" carry the node they bracket and
\* ":" the length that follows it
Token(kind, node, name, length) ==
    [kind |-> kind, node |-> node, name |-> name, length |-> length]

RECURSIVE writeSubtree(_, _, _, _, _, _)
RECURSIVE writeChildren(_, _, _, _, _, _)

\* StitchupGraph::writeSubtree; nodeToEdge is passed by value, backstop is
\* <<>> for nullptr and <<stitch>> otherwise
writeSubtree(g, stitchVector, nodeToEdge, backstop, nodeIndex, noBrackets) ==
    LET isLeaf == nodeIndex < Cardinality(DOMAIN g.leafNames)
        y      == Cardinality(DOMAIN stitchVector)
        marked == [nodeToEdge EXCEPT ![nodeIndex] = y]
        body   == IF isLeaf
                  THEN <<Token("name", nodeIndex, g.leafNames[nodeIndex], Zero)>>
                  ELSE (IF noBrackets THEN <<>> ELSE <<Token("(", nodeIndex, "", Zero)>>)
                       \o writeChildren(g, stitchVector, marked, nodeIndex,
                                        nodeToEdge[nodeIndex], FALSE)
                       \o (IF noBrackets THEN <<>> ELSE <<Token(")", nodeIndex, "", Zero)>>)
    IN  body \o (IF backstop # <<>>
                 THEN <<Token(":", nodeIndex, "", backstop[1].length)>>
                 ELSE <<>>)

\* the loop of writeSubtree over the stitches that leave nodeIndex
writeChildren(g, stitchVector, nodeToEdge, nodeIndex, x, separate) ==
    LET y == Cardinality(DOMAIN stitchVector)
    IN  IF x < y /\ stitchVector[x].source = nodeIndex
        THEN LET child == stitchVector[x].destination
             IN  IF nodeToEdge[child] # y
                 THEN (IF separate THEN <<Token(",", nodeIndex, "", Zero)>> ELSE <<>>)
                      \o writeSubtree(g, stitchVector, nodeToEdge,
                                      <<stitchVector[x]>>, child, FALSE)
                      \o writeChildren(g, stitchVector, nodeToEdge, nodeIndex,
                                       x + 1, TRUE)
                 ELSE writeChildren(g, stitchVector, nodeToEdge, nodeIndex,
                                    x + 1, separate)
        ELSE <<>>

\* StitchupGraph::writeTreeToOpenFile(isSubtreeOnly, progress, out)
writeTreeToOpenFile(g, isSubtreeOnly) ==
    LET stitchVector  == SortedStitches(g.stitches)
        edgeCount     == Cardinality(DOMAIN stitchVector)
        lastNodeIndex == stitchVector[edgeCount - 1].source
        nodeToEdge    == [i \in 0..lastNodeIndex |->
                            IF \E j \in DOMAIN stitchVector : stitchVector[j].source = i
                            THEN CHOOSE j \in DOMAIN stitchVector :
                                    /\ stitchVector[j].source = i
                                    /\ \A k \in 0..(j - 1) : stitchVector[k].source # i
                            ELSE edgeCount]
    IN  writeSubtree(g, stitchVector, nodeToEdge, <<>>, lastNodeIndex, isSubtreeOnly)
        \o (IF isSubtreeOnly THEN <<>> ELSE <<Token(";", lastNodeIndex, "", Zero)>>)

----------------------------------------------------------------------------
(* StitchupMatrix (stitchup.cpp) *)

\* the (row, col) pairs in the order of the loops that fill the vector
RECURSIVE EdgeOrder(_, _, _)
EdgeOrder(rc, row, col) ==
    IF row >= rc THEN <<>>
    ELSE IF col >= row THEN EdgeOrder(rc, row + 1, 0)
    ELSE <<<<row, col>>>> \o EdgeOrder(rc, row, col + 1)

\* stitches.emplace_back(row, col, rowData[col]) for every pair, each
\* constructor call advancing lastHack
RECURSIVE EmplaceStitches(_, _, _, _)
EmplaceStitches(M, order, k, h) ==
    IF k > Len(order) THEN [entries |-> {}, lastHack |-> h]
    ELSE LET h1   == NextHack(h)
             e    == [source |-> order[k][1], destination |-> order[k][2],
                      length |-> M[order[k][1]][order[k][2]], hack |-> h1]
             rest == EmplaceStitches(M, order, k + 1, h1)
         IN  [entries |-> {e} \cup rest.entries, lastHack |-> rest.lastHack]

\* MinHeapOnArray::pop_min: the entry no other entry is less than
pop_min(h) == CHOOSE e \in h : \A o \in h \ {e} : LengthSortedLess(e, o)

\* a loop that takes the first edge it pops
PopOnce(g, h, iters, hs) ==
    LET shortest == pop_min(h)
    IN  [shortest |-> shortest, heap |-> h \ {shortest}, iterations |-> iters + 1]

\* the do-while loop of constructTree
RECURSIVE PopUntilJoinable(_, _, _, _)
PopUntilJoinable(g, h, iters, hs) ==
    LET shortest == pop_min(h)
        h1       == h \ {shortest}
        iters1   == iters + 1
    IN  IF /\ areLeavesInSameSet(g, shortest.source, shortest.destination)
           /\ iters1 <= hs
           /\ h1 # {}
        THEN PopUntilJoinable(g, h1, iters1, hs)
        ELSE [shortest |-> shortest, heap |-> h1, iterations |-> iters1]

SetGraph(g) ==
    /\ leafNames'         = g.leafNames
    /\ stitches'          = g.stitches
    /\ taxonToSetNumber'  = g.taxonToSetNumber
    /\ taxonToNodeNumber' = g.taxonToNodeNumber
    /\ taxonToDistance'   = g.taxonToDistance
    /\ setMembers'        = g.setMembers
    /\ nodeCount'         = g.nodeCount

----------------------------------------------------------------------------
(* Specification SpecStitch: STITCHUP builds of one input, one after the     *)
(* other in the same process                                                 *)

MaxBuilds == 2

StitchInputs ==
    UNION {[n : {k}, m : {FlatSymmetric(k, f) : f \in [Pairs(k) -> Distances]}]
           : k \in 3..MaxLeaves}

InitStitch ==
    /\ pc = "start"
    /\ \E in \in StitchInputs :
          /\ names  = SubSeq(NamePool, 1, in.n)
          /\ matrix = in.m
    /\ row_count = 0
    /\ rows = <<>>
    /\ rowTotals = <<>>
    /\ rowToCluster = <<>>
    /\ clusters = <<>>
    /\ rowMinima = <<>>
    /\ best = DefaultPosition
    /\ joinLog = <<>>
    /\ threads = 1
    /\ nextRow = 0
    /\ scanning = {}
    /\ StitchIdle
    /\ py = PyIdle
    /\ ExtraIdle

\* StitchupMatrix::loadMatrix
StitchLoadMatrix ==
    /\ pc = "start"
    /\ row_count' = Len(names)
    /\ rows' = loadDistancesFromFlatArray(Len(names), matrix)
    /\ SetGraph(addLeaves(EmptyGraph, names, 1))
    /\ pc' = "loaded"
    /\ UNCHANGED <<py, extraVars, names, matrix, rowTotals, rowToCluster, clusters, rowMinima,
                   best, joinLog, scanVars, lastHack, heap, heapSize, iterations,
                   join, outputs>>

\* constructTree up to its join loop: the vector of edges and the heap
BuildHeap ==
    /\ pc = "loaded"
    /\ ~(row_count < 3)
    /\ LET built == EmplaceStitches(rows, EdgeOrder(row_count, 0, 0), 1, lastHack)
       IN  /\ heap' = built.entries
           /\ lastHack' = built.lastHack
           /\ heapSize' = Cardinality(built.entries)
    /\ iterations' = 0
    /\ join' = 0
    /\ pc' = "stitching"
    /\ UNCHANGED <<py, extraVars, names, matrix, upgmaVars, scanVars, graphVars, outputs>>

\* one pass of the join loop: pop until the leaves are in different sets, staple
StitchJoin ==
    /\ pc = "stitching"
    /\ join + 1 < row_count
    /\ heap # {}
    /\ LET popped == PopUntilJoinable(GraphState, heap, iterations, heapSize)
       IN  /\ heap' = popped.heap
           /\ iterations' = popped.iterations
           /\ SetGraph(staple(GraphState, popped.shortest.source,
                              popped.shortest.destination, popped.shortest.length))
    /\ join' = join + 1
    /\ UNCHANGED <<py, extraVars, pc, names, matrix, upgmaVars, scanVars, lastHack, heapSize, outputs>>

\* the end of constructTree: graph.removeThroughThroughNodes()
RemoveThroughThroughNodes ==
    /\ pc = "stitching"
    /\ ~(join + 1 < row_count)
    /\ stitches' = removeThroughThroughNodes(stitches, nodeCount)
    /\ pc' = "built"
    /\ UNCHANGED <<py, extraVars, names, matrix, upgmaVars, scanVars, lastHack, heap, heapSize,
                   iterations, join, leafNames, taxonToSetNumber, taxonToNodeNumber,
                   taxonToDistance, setMembers, nodeCount, outputs>>

\* StitchupMatrix::writeTreeToOpenFile, subtreeOnly being false
WriteTree ==
    /\ pc = "built"
    /\ outputs' = Append(outputs, writeTreeToOpenFile(GraphState, FALSE))
    /\ pc' = "written"
    /\ UNCHANGED <<py, extraVars, names, matrix, upgmaVars, scanVars, lastHack, heap, heapSize,
                   iterations, join, graphVars>>

\* the caller builds the same input again
BuildAgain ==
    /\ pc = "written"
    /\ Len(outputs) < MaxBuilds
    /\ pc' = "start"
    /\ UNCHANGED <<py, extraVars, names, matrix, upgmaVars, scanVars, stitchVars>>

NextStitch ==
    \/ StitchLoadMatrix
    \/ BuildHeap
    \/ StitchJoin
    \/ RemoveThroughThroughNodes
    \/ WriteTree
    \/ BuildAgain

SpecStitch == InitStitch /\ [][NextStitch]_vars

----------------------------------------------------------------------------
(* Properties of the UPGMA build *)

N == Len(names)

ClusterIds == DOMAIN clusters

\* the (parent, link number) pairs that name cluster c as a child
ParentLinks(c) ==
    {pl \in UNION {{<<p, k>> : k \in DOMAIN clusters[p].links} : p \in ClusterIds} :
        clusters[pl[1]].links[pl[2]].clusterIndex = c}

MinimumCells(st) ==
    {p \in Pairs(st.row_count) :
        \A q \in Pairs(st.row_count) : RLeq(st.rows[p[1]][p[2]], st.rows[q[1]][q[2]])}

LexLeq(p, q) == p[1] < q[1] \/ (p[1] = q[1] /\ p[2] <= q[2])

\* the (row, column) the next pass of the join loop hands to cluster
NextJoin ==
    LET b == getMinimumEntry(best, getRowMinima(rowMinima, UpgmaState), row_count)
    IN  <<b.row, b.column>>

\* C7: among the cells that share the minimum the join loop joins the pair of
\* smallest imbalance, and among those the lexicographically smallest (row, column).
C7_ImbalanceTieBreak ==
    (pc = "loop" /\ 3 < row_count) =>
        LET st   == UpgmaState
            ties == MinimumCells(st)
            j    == NextJoin
        IN  /\ j \in ties
            /\ \A q \in ties :
                  \/ getImbalance(st, j[1], j[2]) < getImbalance(st, q[1], q[2])
                  \/ /\ getImbalance(st, j[1], j[2]) = getImbalance(st, q[1], q[2])
                     /\ LexLeq(j, q)

LeafLinks ==
    {l \in UNION {{clusters[p].links[k] : k \in DOMAIN clusters[p].links}
                  : p \in ClusterIds} : l.clusterIndex < N}

InteriorLinks ==
    {l \in UNION {{clusters[p].links[k] : k \in DOMAIN clusters[p].links}
                  : p \in ClusterIds} : l.clusterIndex >= N}

\* C8: for A,B,C,D with every distance 1 UPGMA gives a star whose branches all
\* have length 1/2 (a branch between interior clusters, which a star does not
\* have, may only have length 0).
C8_EquidistantStar ==
    (pc = "done" /\ matrix = Equidistant(4)) =>
        /\ \A l \in LeafLinks : l.linkDistance = Half
        /\ \A l \in InteriorLinks : l.linkDistance \in {Zero, Half}

LinkSet(c) == {clusters[c].links[k] : k \in DOMAIN clusters[c].links}

\* C9: for AB=2, CD=2 and every other distance 4 UPGMA builds
\* ((A:1,B:1):1,(C:1,D:1):1).
C9_UltrametricTree ==
    (pc = "done" /\ matrix = Ultrametric4) =>
        \E x, y \in ClusterIds :
            /\ LinkSet(x) = {Link(0, FromInt(1)), Link(1, FromInt(1))}
            /\ LinkSet(y) = {Link(2, FromInt(1)), Link(3, FromInt(1))}
            /\ \A l \in InteriorLinks :
                  l.clusterIndex \in {x, y} => l.linkDistance = FromInt(1)
            /\ \E l \in InteriorLinks : l.clusterIndex = x
            /\ \E l \in InteriorLinks : l.clusterIndex = y

\* C10: for three taxa at distance 1 from each other there is no two-way join
\* and the one terminal cluster has three branches of length 1/2.
C10_ThreeTaxaHalf ==
    (pc = "done" /\ matrix = Equidistant(3)) =>
        /\ joinLog = <<>>
        /\ ClusterIds = 0..3
        /\ Len(clusters[3].links) = 3
        /\ \A l \in LinkSet(3) : l.linkDistance = Half

----------------------------------------------------------------------------
(* The build run by one thread, rows scanned in increasing order *)

RECURSIVE SequentialBuild(_, _, _, _)
SequentialBuild(st, rm, b, log) ==
    IF 3 < st.row_count
    THEN LET rm2 == getRowMinima(rm, st)
             b2  == getMinimumEntry(b, rm2, st.row_count)
         IN  SequentialBuild(cluster(st, b2.column, b2.row), rm2, b2,
                             Append(log, <<b2.column, b2.row, b2.value>>))
    ELSE [joins |-> log, clusters |-> finishClustering(st).clusters]

Sequential == SequentialBuild(loadMatrix(names, matrix), <<>>, DefaultPosition, <<>>)

\* C5: whatever the number of workers and the order in which the row scans
\* finish, the joins made so far are the joins of the one-thread build, the
\* finished forest is its forest, and while rows are being scanned only the
\* rowMinima slots of rows in the hands of a worker are still to be written:
\* the slots of finished rows hold their row's minimum.
C5_ScanOrderIndependent ==
    /\ pc \in {"loop", "scan", "done"} =>
          /\ Len(joinLog) <= Len(Sequential.joins)
          /\ joinLog = SubSeq(Sequential.joins, 1, Len(joinLog))
    /\ pc = "done" => clusters = Sequential.clusters
    /\ pc = "scan" =>
          \A r \in 1..(nextRow - 1) :
              r \notin scanning => rowMinima[r] = RowMinimum(UpgmaState, r)

C5_Witness ==
    /\ pc = "done"
    /\ threads = 2
    /\ Len(joinLog) = 2

----------------------------------------------------------------------------
(* Properties of the STITCHUP build *)

\* the nodes that the stitches of the graph mention
StitchNodes == {s.source : s \in stitches} \cup {s.destination : s \in stitches}

LeafNodes == 0..(Len(names) - 1)

InteriorNodes == {n \in StitchNodes : n >= Len(names)}

Degree(n) == Cardinality({s \in stitches : s.source = n})

\* the nodes that can be reached from the nodes of seen along stitches
RECURSIVE ReachableFrom(_)
ReachableFrom(seen) ==
    LET more == {s.destination : s \in {t \in stitches : t.source \in seen}}
    IN  IF more \subseteq seen THEN seen ELSE ReachableFrom(seen \cup more)

\* the last tree that was written
LastOutput == outputs[Len(outputs)]

\* the positions of an output at which a node is written: a leaf by its
\* name, an interior node by its opening bracket
Visits(out) == {k \in DOMAIN out : out[k].kind \in {"name", "("}}

\* C1: the Newick text that STITCHUP writes holds each of the N leaf names
\* exactly once, and no node of the graph is written twice.
C1_NewickLeavesOnce ==
    pc = "written" =>
        /\ \A i \in DOMAIN names :
              Cardinality({k \in DOMAIN LastOutput :
                              /\ LastOutput[k].kind = "name"
                              /\ LastOutput[k].name = names[i]}) = 1
        /\ Cardinality({k \in DOMAIN LastOutput : LastOutput[k].kind = "name"})
              = Len(names)
        /\ \A j, k \in Visits(LastOutput) :
              LastOutput[j].node = LastOutput[k].node => j = k

C1_Witness ==
    /\ pc = "written"
    /\ Len(names) = 4
    /\ Cardinality(Visits(LastOutput)) = 6

\* C2: after constructTree the stitch graph is an unrooted tree on the N
\* leaves: N-2 interior nodes, 2N-3 undirected edges, connected and without
\* a cycle, every leaf of degree 1, every interior node of degree 3, and
\* every edge stored in both directions with the same length.
C2_UnrootedTree ==
    pc \in {"built", "written"} =>
        /\ LeafNodes \subseteq StitchNodes
        /\ Cardinality(InteriorNodes) = Len(names) - 2
        /\ Cardinality(stitches) = 2 * (2 * Len(names) - 3)
        /\ \A s, t \in stitches :
              (s.source = t.source /\ s.destination = t.destination) => s = t
        /\ \A s \in stitches :
              /\ s.source # s.destination
              /\ \E t \in stitches : /\ t.source = s.destination
                                     /\ t.destination = s.source
                                     /\ t.length = s.length
        /\ ReachableFrom({0}) = StitchNodes
        /\ Cardinality(stitches) = 2 * (Cardinality(StitchNodes) - 1)
        /\ \A n \in LeafNodes : Degree(n) = 1
        /\ \A n \in InteriorNodes : Degree(n) = 3

\* a build of four leaves from whose graph nodes of degree 2 were removed
C2_Witness ==
    /\ pc = "built"
    /\ Len(names) = 4
    /\ Cardinality(StitchNodes) < nodeCount
    /\ Cardinality(InteriorNodes) = 2

\* the text of an output: what is written, without the node it came from
Text(out) == [k \in DOMAIN out |-> <<out[k].kind, out[k].name, out[k].length>>]

\* C4: two STITCHUP builds of the same input write the same tree, also when
\* both run in the same process.
C4_RepeatableBuilds ==
    \A i, j \in DOMAIN outputs : Text(outputs[i]) = Text(outputs[j])

\* C6: removeThroughThroughNodes changes nothing when it is applied again
\* to a graph that constructTree has produced.
C6_RemoveIdempotent ==
    pc \in {"built", "written"} =>
        removeThroughThroughNodes(stitches, nodeCount) = stitches

\* a graph from which the pass of constructTree did remove nodes
C6_Witness ==
    /\ pc = "built"
    /\ Len(outputs) = 0
    /\ Cardinality(StitchNodes) + Len(names) = nodeCount

----------------------------------------------------------------------------
(* Specification SpecAsym: the UPGMA build of an input whose two triangles   *)
(* disagree in one pair of cells                                             *)

MaxAsymN == 4

\* the flat array m of rank n with cell (r, c) replaced by v
WithCell(n, m, r, c, v) == [m EXCEPT ![r * n + c] = v]

\* symmetric inputs in which one cell above the diagonal was changed
AsymInputs ==
    UNION {[n : {k},
            m : {WithCell(k, FlatSymmetric(k, f), p[2], p[1], v) :
                    f \in [Pairs(k) -> Distances], p \in Pairs(k), v \in Distances}]
           : k \in 3..MaxAsymN}

InitAsym ==
    /\ pc = "start"
    /\ \E in \in AsymInputs :
          /\ names  = SubSeq(NamePool, 1, in.n)
          /\ matrix = in.m
    /\ row_count = 0
    /\ rows = <<>>
    /\ rowTotals = <<>>
    /\ rowToCluster = <<>>
    /\ clusters = <<>>
    /\ rowMinima = <<>>
    /\ best = DefaultPosition
    /\ joinLog = <<>>
    /\ threads = 1
    /\ nextRow = 0
    /\ scanning = {}
    /\ StitchIdle
    /\ py = PyIdle
    /\ ExtraIdle

SpecAsym == InitAsym /\ [][Next]_vars

\* the symmetric array that holds, in both triangles, the cells of m below
\* the diagonal
LowerSymmetric(n, m) ==
    [i \in 0..(n*n - 1) |->
        LET r == i \div n
            c == i % n
        IN  IF c <= r THEN m[i] ELSE m[c * n + r]]

\* C11: the tree depends only on the cells below the diagonal: the forest
\* built from an input whose triangles disagree is the forest built from the
\* symmetric input that holds the lower value in both cells.
C11_LowerTriangleOnly ==
    pc = "done" =>
        clusters = SequentialBuild(loadMatrix(names, LowerSymmetric(Len(names), matrix)),
                                   <<>>, DefaultPosition, <<>>).clusters

----------------------------------------------------------------------------
(* pydecenttree_constructTree (the Python binding, src/unnamed/part_000)     *)

MaxPyN == 4

\* the names under which the builders of this model are advertised
Registry == {"UPGMA", "STITCH"}

\* the flat array of rank n with distance 1 everywhere, but -1 between the
\* first two taxa
WithNegative(n) == WithCell(n, WithCell(n, Equidistant(n), 1, 0, -1), 0, 1, -1)

\* sequence arguments: a list of k names, or an object that is no list of
\* strings
PySequences ==
    {[ok |-> TRUE, items |-> SubSeq(NamePool, 1, k)] : k \in 2..MaxPyN}
    \cup {[ok |-> FALSE, items |-> <<>>]}

\* distance arguments: a list of doubles, or an object with an item that
\* does not convert to double
PyDistances ==
    {[ok |-> TRUE, data |-> d] :
        d \in UNION {{Equidistant(k), WithNegative(k)} : k \in 3..MaxPyN}}
    \cup {[ok |-> FALSE, data |-> <<>>]}

\* the arguments PyArg_ParseTupleAndKeywords accepts ("sOO|iii")
PyCalls ==
    [algorithm : Registry \cup {"BOGUS"}, sequences : PySequences,
     distances : PyDistances, number_of_threads : {0, 2}, precision : {0, 6}]

\* distance_entries after isVectorOfDouble
DistanceEntries(a) == Cardinality(DOMAIN a.distances.data)

\* a validation chain that lets every precision pass
ValidateAnyPrecision(a) ==
    IF a.algorithm \notin Registry THEN "Algorithm not found."
    ELSE IF ~a.sequences.ok THEN "sequencenames is not a sequence."
    ELSE IF Len(a.sequences.items) < 3 THEN "must have at least 3"
    ELSE IF ~a.distances.ok THEN "distance could not convert item to double."
    ELSE IF DistanceEntries(a) # Len(a.sequences.items) * Len(a.sequences.items)
         THEN "distance matrix contains the wrong number of elements"
    ELSE ""

\* the if / else-if chain of pydecenttree_constructTree: the complaint it
\* writes, "" when it reaches the call of constructTreeStringInMemory
Validate(a) ==
    IF a.algorithm \notin Registry THEN "Algorithm not found."
    ELSE IF ~a.sequences.ok THEN "sequencenames is not a sequence."
    ELSE IF Len(a.sequences.items) < 3 THEN "must have at least 3"
    ELSE IF ~a.distances.ok THEN "distance could not convert item to double."
    ELSE IF DistanceEntries(a) # Len(a.sequences.items) * Len(a.sequences.items)
         THEN "distance matrix contains the wrong number of elements"
    ELSE IF a.precision < 1 THEN "Cannot have precision less than 1"
    ELSE ""

InitBuild ==
    /\ pc = "python"
    /\ names = <<>>
    /\ matrix = <<>>
    /\ row_count = 0
    /\ rows = <<>>
    /\ rowTotals = <<>>
    /\ rowToCluster = <<>>
    /\ clusters = <<>>
    /\ rowMinima = <<>>
    /\ best = DefaultPosition
    /\ joinLog = <<>>
    /\ threads = 1
    /\ nextRow = 0
    /\ scanning = {}
    /\ StitchIdle
    /\ ExtraIdle
    /\ \E a \in PyCalls :
          py = [stage |-> "called", args |-> a, complaint |-> "",
                tree_string |-> <<>>, invoked |-> FALSE, result |-> "none"]

\* pydecenttree_constructTree finds a complaint: tree_string stays empty,
\* PyErr_SetString, return nullptr
PyReject ==
    /\ py.stage = "called"
    /\ Validate(py.args) # ""
    /\ py' = [py EXCEPT !.stage = "returned", !.complaint = Validate(py.args),
                        !.result = "error"]
    /\ UNCHANGED <<pc, names, matrix, upgmaVars, scanVars, stitchVars, extraVars>>

\* pydecenttree_constructTree reaches algorithm->constructTreeStringInMemory
PyInvoke ==
    /\ py.stage = "called"
    /\ Validate(py.args) = ""
    /\ names' = py.args.sequences.items
    /\ matrix' = py.args.distances.data
    /\ pc' = "start"
    /\ py' = [py EXCEPT !.stage = "building", !.invoked = TRUE]
    /\ UNCHANGED <<upgmaVars, scanVars, stitchVars, extraVars>>

\* constructTreeStringInMemory returns with the tree in tree_string
PyReturn ==
    /\ py.stage = "building"
    /\ \/ py.args.algorithm = "UPGMA" /\ pc = "done"
       \/ py.args.algorithm = "STITCH" /\ pc = "written"
    /\ LET tree == IF py.args.algorithm = "UPGMA"
                   THEN <<clusters>> ELSE outputs[Len(outputs)]
       IN  py' = [py EXCEPT !.stage = "returned", !.tree_string = tree,
                            !.result = IF tree = <<>> THEN "error" ELSE "tree"]
    /\ UNCHANGED <<pc, names, matrix, upgmaVars, scanVars, stitchVars, extraVars>>

\* the steps of the builder the registry returned
PyBuilderStep ==
    /\ py.stage = "building"
    /\ \/ py.args.algorithm = "UPGMA" /\ Next
       \/ /\ py.args.algorithm = "STITCH"
          /\ \/ StitchLoadMatrix
             \/ BuildHeap
             \/ StitchJoin
             \/ RemoveThroughThroughNodes
             \/ WriteTree

NextBuild ==
    \/ PyReject
    \/ PyInvoke
    \/ PyBuilderStep
    \/ PyReturn

SpecBuild == InitBuild /\ [][NextBuild]_vars

\* a call that names no advertised algorithm, fewer than three names, a
\* number of distances other than names squared, or a precision below 1
InvalidCall(a) ==
    \/ a.algorithm \notin Registry
    \/ a.sequences.ok /\ Len(a.sequences.items) < 3
    \/ /\ a.sequences.ok
       /\ a.distances.ok
       /\ DistanceEntries(a) # Len(a.sequences.items) * Len(a.sequences.items)
    \/ a.precision < 1

\* C12: a call with an unknown algorithm name, fewer than three names, a
\* distance count other than names squared or precision < 1 returns an
\* error, has no tree string and never reaches the tree construction.
C12_InvalidCallRejected ==
    InvalidCall(py.args) =>
        /\ py.stage \in {"called", "returned"}
        /\ ~py.invoked
        /\ py.tree_string = <<>>
        /\ pc = "python" /\ clusters = <<>> /\ stitches = {}
        /\ py.stage = "returned" => py.result = "error" /\ py.complaint # ""

\* a call that is valid but for its precision was turned down
C12_Witness ==
    /\ py.stage = "returned"
    /\ py.result = "error"
    /\ py.args.precision < 1
    /\ ValidateAnyPrecision(py.args) = ""

\* the distances of a call hold a negative entry
HasNegative(a) ==
    a.distances.ok /\ \E i \in DOMAIN a.distances.data : a.distances.data[i] < 0

\* C13: a call whose distance matrix holds a negative entry is rejected
\* with an error before any tree construction starts, and returns no tree.
C13_NegativeRejected ==
    HasNegative(py.args) =>
        /\ py.stage \in {"called", "returned"}
        /\ ~py.invoked
        /\ py.stage = "returned" => py.result = "error" /\ py.tree_string = <<>>

----------------------------------------------------------------------------
(* Properties of the UPGMA matrix during the join loop *)

ActiveRows == 0..(row_count - 1)

\* C14: for a symmetric zero-diagonal input the active matrix is symmetric
\* with a zero diagonal after the load and after every join (cluster, then
\* the removal of row and column b by swap-with-last).
C14_SymmetricZeroDiagonal ==
    pc \in {"loaded", "loop"} =>
        \A i \in ActiveRows :
            /\ rows[i][i] = Zero
            /\ \A j \in ActiveRows : rows[i][j] = rows[j][i]

\* two joins were made and three rows are left
C14_Witness ==
    /\ pc = "loop"
    /\ Len(joinLog) = 2
    /\ row_count = 3

\* C17: after the load and after every join the row total of every active
\* row is the sum of the other active cells of that row in the current
\* (merged and compacted) matrix.
C17_RowTotalsCurrent ==
    pc \in {"loaded", "loop"} =>
        \A i \in ActiveRows : rowTotals[i] = SumRow(rows[i], i, 0, row_count)

----------------------------------------------------------------------------
(* Properties of the stitching loop *)

\* the edge the next pass of the stitching loop hands to staple
NextStaple == PopUntilJoinable(GraphState, heap, iterations, heapSize).shortest

\* C18: in the stitching loop every join starts with a heap that is not
\* empty and staples two leaves of different sets, and after the N-1
\* staples all leaves are in one set.
C18_JoinFindsEdge ==
    /\ (pc = "stitching" /\ join + 1 < row_count) =>
          /\ heap # {}
          /\ taxonToSetNumber[NextStaple.source]
                # taxonToSetNumber[NextStaple.destination]
    /\ (pc = "stitching" /\ ~(join + 1 < row_count)) =>
          /\ join = row_count - 1
          /\ \A t, u \in DOMAIN taxonToSetNumber :
                taxonToSetNumber[t] = taxonToSetNumber[u]

\* the third join of four leaves, reached after an edge inside a set was
\* popped and dropped
C18_Witness ==
    /\ pc = "stitching"
    /\ join = 3
    /\ row_count = 4
    /\ iterations > 3

\* the lengths of the paths of stitches in S from node u to node target that
\* pass through no node of seen
RECURSIVE PathLengths(_, _, _, _)
PathLengths(S, u, target, seen) ==
    IF u = target THEN {Zero}
    ELSE UNION {{RAdd(s.length, l) :
                    l \in PathLengths(S, s.destination, target, seen \cup {u})} :
                s \in {e \in S : e.source = u /\ e.destination \notin seen}}

\* C19: after any sequence of staples taxonToDistance[t] is the total length
\* of the path of stitches from leaf t to its tip taxonToNodeNumber[t].
C19_AccumulatedDistance ==
    pc = "stitching" =>
        \A t \in DOMAIN taxonToDistance :
            PathLengths(stitches, t, taxonToNodeNumber[t], {})
                = {taxonToDistance[t]}

\* ---------------------------------------------------------------------
\* The vectorized row scan of VectorizedUPGMA_Matrix
\* ---------------------------------------------------------------------

\* the longest row scanned on its own
MaxVecRow == 10

\* VB().size(): the lanes of a FloatVector (Vec8f)
blockSize == 8

\* VectorizedUPGMA_Matrix::calculateRowTotals: scratchColumnNumbers.resize
\* fills the vector with 0.0 and nothing stores a column number in it
scratchColumnNumbers(rc) == [c \in 0..rc-1 |-> 0]

Lanes == 0..blockSize-1

\* the block loop of VectorizedUPGMA_Matrix::getRowMinima: each lane keeps
\* the first strictly smaller value met and the entry of nums beside it
RECURSIVE ScanBlocks(_, _, _, _, _, _)
ScanBlocks(rowData, nums, row, col, minVector, ixVector) ==
    IF col + blockSize >= row THEN <<minVector, ixVector, col>>
    ELSE LET less == [c \in Lanes |-> RLess(rowData[col + c], minVector[c])]
         IN  ScanBlocks(rowData, nums, row, col + blockSize,
                 [c \in Lanes |-> IF less[c] THEN rowData[col + c] ELSE minVector[c]],
                 [c \in Lanes |-> IF less[c] THEN nums[col + c] ELSE ixVector[c]])

\* the loop over the lanes that extracts the minimum of minVector
RECURSIVE ScanLanes(_, _, _, _, _)
ScanLanes(minVector, ixVector, c, value, column) ==
    IF c >= blockSize THEN <<value, column>>
    ELSE IF RLess(minVector[c], value)
         THEN ScanLanes(minVector, ixVector, c + 1, minVector[c], ixVector[c])
         ELSE ScanLanes(minVector, ixVector, c + 1, value, column)

\* VectorizedUPGMA_Matrix::getRowMinima for one row: blocks, lanes, then
\* the scalar loop over the columns left; gives <<value, column>>
VectorRowMinimum(rowData, nums, row) ==
    LET blocks == ScanBlocks(rowData, nums, row, 0,
                             [c \in Lanes |-> infiniteDistance],
                             [c \in Lanes |-> -1])
        lanes  == ScanLanes(blocks[1], blocks[2], 0, infiniteDistance, 0)
    IN  ScanColumns(rowData, row, blocks[3], lanes[1], lanes[2])

\* UPGMA_Matrix::getRowMinima for one row; gives <<value, column>>
ScalarRowMinimum(rowData, row) ==
    ScanColumns(rowData, row, 0, infiniteDistance, 0)

\* a row of the lower triangle is handed to both scans
InitVec ==
    /\ pc = "vector"
    /\ names = <<>>
    /\ matrix = <<>>
    /\ row_count = 0
    /\ rows = <<>>
    /\ rowTotals = <<>>
    /\ rowToCluster = <<>>
    /\ clusters = <<>>
    /\ rowMinima = <<>>
    /\ best = DefaultPosition
    /\ joinLog = <<>>
    /\ threads = 1
    /\ nextRow = 0
    /\ scanning = {}
    /\ StitchIdle
    /\ py = PyIdle
    /\ mergeJob = [pairs |-> {}, pending |-> {}]
    /\ LateIdle
    /\ \E row \in 1..MaxVecRow :
       \E rowData \in [0..row-1 -> {FromInt(d) : d \in Distances}] :
          vec = [stage |-> "loaded", row |-> row, rowData |-> rowData,
                 scalar |-> <<>>, vector |-> <<>>]

\* the scalar search scans the row
VecScalarScan ==
    /\ pc = "vector"
    /\ vec.stage = "loaded"
    /\ vec.scalar = <<>>
    /\ vec' = [vec EXCEPT !.scalar = ScalarRowMinimum(vec.rowData, vec.row)]
    /\ UNCHANGED <<pc, names, matrix, upgmaVars, scanVars, stitchVars, py, mergeJob,
                   lateVars>>

\* the vectorized search scans the row
VecVectorScan ==
    /\ pc = "vector"
    /\ vec.stage = "loaded"
    /\ vec.vector = <<>>
    /\ vec' = [vec EXCEPT !.vector =
                 VectorRowMinimum(vec.rowData, scratchColumnNumbers(vec.row + 1), vec.row)]
    /\ UNCHANGED <<pc, names, matrix, upgmaVars, scanVars, stitchVars, py, mergeJob,
                   lateVars>>

NextVec == VecScalarScan \/ VecVectorScan

SpecVec == InitVec /\ [][NextVec]_vars

\* C20: for every row the vectorized search returns the value and the
\* column that the scalar search returns
C20_VectorMatchesScalar ==
    (vec.stage = "loaded" /\ vec.scalar # <<>> /\ vec.vector # <<>>)
        => vec.vector = vec.scalar

\* ---------------------------------------------------------------------
\* The sets of leaves kept by StitchupGraph
\* ---------------------------------------------------------------------

\* the most leaves, and the most pairs, handed to mergeSets on their own
MaxMergeLeaves == 4
MaxMergePairs == 4

LeafPairs(n) == {p \in (0..n-1) \X (0..n-1) : p[1] < p[2]}

\* leaves added with addLeaf, and a collection of pairs of them to merge
InitMerge ==
    /\ pc = "merge"
    /\ matrix = <<>>
    /\ row_count = 0
    /\ rows = <<>>
    /\ rowTotals = <<>>
    /\ rowToCluster = <<>>
    /\ clusters = <<>>
    /\ rowMinima = <<>>
    /\ best = DefaultPosition
    /\ joinLog = <<>>
    /\ threads = 1
    /\ nextRow = 0
    /\ scanning = {}
    /\ lastHack = One64
    /\ heap = {}
    /\ heapSize = 0
    /\ iterations = 0
    /\ join = 0
    /\ outputs = <<>>
    /\ py = PyIdle
    /\ vec = [stage |-> "idle"]
    /\ LateIdle
    /\ \E n \in 2..MaxMergeLeaves :
          /\ names = SubSeq(NamePool, 1, n)
          /\ LET g == addLeaves(EmptyGraph, SubSeq(NamePool, 1, n), 1)
             IN  /\ leafNames = g.leafNames
                 /\ stitches = g.stitches
                 /\ taxonToSetNumber = g.taxonToSetNumber
                 /\ taxonToNodeNumber = g.taxonToNodeNumber
                 /\ taxonToDistance = g.taxonToDistance
                 /\ setMembers = g.setMembers
                 /\ nodeCount = g.nodeCount
          /\ \E P \in SUBSET LeafPairs(n) :
                /\ Cardinality(P) <= MaxMergePairs
                /\ mergeJob = [pairs |-> P, pending |-> P]

\* mergeSets(taxonToSetNumber[leafA], taxonToSetNumber[leafB]), as staple
\* calls it, for any pair still to merge
MergePair ==
    /\ pc = "merge"
    /\ \E p \in mergeJob.pending :
          /\ SetGraph(mergeSets(GraphState, taxonToSetNumber[p[1]],
                                taxonToSetNumber[p[2]]))
          /\ mergeJob' = [mergeJob EXCEPT !.pending = @ \ {p}]
    /\ UNCHANGED <<pc, names, matrix, upgmaVars, scanVars, lastHack, heap,
                   heapSize, iterations, join, outputs, py, vec, lateVars>>

SpecMerge == InitMerge /\ [][MergePair]_vars

\* the leaves joined to leaf a by a chain of pairs of E
RECURSIVE Joined(_, _)
Joined(E, S) ==
    LET more == S \cup {p[2] : p \in {q \in E : q[1] \in S}}
                  \cup {p[1] : p \in {q \in E : q[2] \in S}}
    IN  IF more = S THEN S ELSE Joined(E, more)

MergedPairs == mergeJob.pairs \ mergeJob.pending

\* two leaves have the same set number exactly when a chain of merged pairs
\* joins them, and setMembers[s] lists, once each, the leaves numbered s
GroupingMatchesPairs ==
    pc = "merge" =>
        /\ \A a, b \in DOMAIN taxonToSetNumber :
              (taxonToSetNumber[a] = taxonToSetNumber[b])
                  <=> (b \in Joined(MergedPairs, {a}))
        /\ \A s \in DOMAIN setMembers :
              /\ SeqToSet(setMembers[s])
                    = {t \in DOMAIN taxonToSetNumber : taxonToSetNumber[t] = s}
              /\ Len(setMembers[s]) = Cardinality(SeqToSet(setMembers[s]))

\* a set emptied by a merge was no larger than the set its members went to
SmallerMovedIntoLarger ==
    pc = "merge" =>
        \A s \in DOMAIN setMembers :
            (setMembers[s] # <<>> /\ setMembers'[s] = <<>>) =>
                \E k \in DOMAIN setMembers :
                    /\ setMembers'[k] = setMembers[k] \o setMembers[s]
                    /\ Len(setMembers[s]) <= Len(setMembers[k])

\* C16: whatever the order in which the pairs of a collection are merged,
\* the grouping is the one the merged pairs determine, and every merge
\* moves the smaller set into the larger
C16_GroupingOrderIndependent ==
    []GroupingMatchesPairs /\ [][SmallerMovedIntoLarger]_vars

\* every pair of a collection of four has been merged, one of them between
\* leaves already in the same set, and a set of three leaves or more exists
C16_Witness ==
    /\ pc = "merge"
    /\ mergeJob.pending = {}
    /\ Cardinality(mergeJob.pairs) = 4
    /\ \E s \in DOMAIN setMembers : Len(setMembers[s]) >= 3

\* ---------------------------------------------------------------------
\* Builds of an input and of the same input with its names permuted
\* ---------------------------------------------------------------------

\* the most taxa of a permuted input, and the number of inputs without ties
MaxPermN == 4
MaxScramble == 3

NamePermutations(n) ==
    {p \in [0..n-1 -> 0..n-1] : \A i, j \in 0..n-1 : p[i] = p[j] => i = j}

\* a symmetric input whose pairs all have different distances
Scrambled(n, k) ==
    FlatSymmetric(n, [p \in Pairs(n) |->
        1 + ((k * (1 + (p[1] * (p[1] - 1)) \div 2 + p[2])) % 17)])

PermInputs(n) == {Equidistant(n)} \cup {Scrambled(n, k) : k \in 1..MaxScramble}

\* taxon i of the permuted input is taxon p[i] of the input
PermutedNames(n, p) == [i \in 1..n |-> NamePool[p[i - 1] + 1]]

PermutedMatrix(n, m, p) ==
    [i \in 0..(n*n - 1) |-> m[p[i \div n] * n + p[i % n]]]

\* a valid call with the names of an input permuted, and its rows and
\* columns with them
InitPerm ==
    /\ pc = "python"
    /\ names = <<>>
    /\ matrix = <<>>
    /\ row_count = 0
    /\ rows = <<>>
    /\ rowTotals = <<>>
    /\ rowToCluster = <<>>
    /\ clusters = <<>>
    /\ rowMinima = <<>>
    /\ best = DefaultPosition
    /\ joinLog = <<>>
    /\ threads = 1
    /\ nextRow = 0
    /\ scanning = {}
    /\ StitchIdle
    /\ ExtraIdle
    /\ \E alg \in Registry, n \in 3..MaxPermN :
       \E m \in PermInputs(n), p \in NamePermutations(n) :
          py = [stage |-> "called",
                args |-> [algorithm |-> alg,
                          sequences |-> [ok |-> TRUE, items |-> PermutedNames(n, p)],
                          distances |-> [ok |-> TRUE, data |-> PermutedMatrix(n, m, p)],
                          number_of_threads |-> 0, precision |-> 6],
                complaint |-> "", tree_string |-> <<>>, invoked |-> FALSE,
                result |-> "none"]

NextPerm ==
    \/ PyInvoke
    \/ PyBuilderStep
    \/ PyReturn

SpecPerm == InitPerm /\ [][NextPerm]_vars

\* StitchupMatrix::constructTree as a function of the graph and the heap
RECURSIVE StitchJoins(_, _, _, _, _, _)
StitchJoins(g, h, iters, hs, j, rc) ==
    IF j + 1 < rc
    THEN LET popped == PopUntilJoinable(g, h, iters, hs)
         IN  StitchJoins(staple(g, popped.shortest.source,
                                popped.shortest.destination, popped.shortest.length),
                         popped.heap, popped.iterations, hs, j + 1, rc)
    ELSE [g EXCEPT !.stitches = removeThroughThroughNodes(g.stitches, g.nodeCount)]

\* loadMatrix and constructTree of StitchupMatrix in a fresh process
StitchBuild(nm, m) ==
    LET n     == Len(nm)
        built == EmplaceStitches(loadDistancesFromFlatArray(n, m),
                                 EdgeOrder(n, 0, 0), 1, One64)
    IN  StitchJoins(addLeaves(EmptyGraph, nm, 1), built.entries, 0,
                    Cardinality(built.entries), 0, n)

\* the names of the leaves below cluster c
RECURSIVE LeavesUnder(_, _)
LeavesUnder(cl, c) ==
    IF cl[c].links = <<>> THEN {cl[c].name}
    ELSE UNION {LeavesUnder(cl, cl[c].links[k].clusterIndex) : k \in DOMAIN cl[c].links}

\* the topology of a cluster forest: for each interior cluster the leaves
\* below it and the other leaves
ClusterSplits(cl) ==
    LET all == {cl[c].name : c \in {d \in DOMAIN cl : cl[d].links = <<>>}}
    IN  {{LeavesUnder(cl, c), all \ LeavesUnder(cl, c)} :
            c \in {d \in DOMAIN cl : Len(cl[d].links) = 2}}

\* the nodes reached from the nodes of seen along stitches of S that do not
\* pass through node block
RECURSIVE Beyond(_, _, _)
Beyond(S, block, seen) ==
    LET more == {s.destination :
                    s \in {t \in S : t.source \in seen /\ t.destination # block}}
    IN  IF more \subseteq seen THEN seen ELSE Beyond(S, block, seen \cup more)

\* the topology of a stitched tree: for each stitch between two interior
\* nodes the leaves on its two sides
StitchSplits(S, leaves) ==
    LET n       == Cardinality(DOMAIN leaves)
        all     == {leaves[i] : i \in DOMAIN leaves}
        side(s) == {leaves[i] :
                       i \in {k \in Beyond(S, s.source, {s.destination}) : k < n}}
    IN  {{side(s), all \ side(s)} :
            s \in {t \in S : t.source >= n /\ t.destination >= n}}

\* the place of a name in NamePool, counted from 0
PoolIndex(nm) == CHOOSE k \in 0..(Len(NamePool) - 1) : NamePool[k + 1] = nm

\* the input the call was permuted from: its names in the order of NamePool
\* and the matrix over them
UnpermutedNames == SubSeq(NamePool, 1, Len(names))

UnpermutedMatrix ==
    LET n      == Len(names)
        at(q)  == CHOOSE i \in 0..n-1 : PoolIndex(names[i + 1]) = q
    IN  [i \in 0..(n*n - 1) |-> matrix[at(i \div n) * n + at(i % n)]]

\* the topology the call returned, and that of the build of the input it
\* was permuted from
ReturnedSplits ==
    IF py.args.algorithm = "UPGMA" THEN ClusterSplits(clusters)
    ELSE StitchSplits(stitches, leafNames)

UnpermutedSplits ==
    IF py.args.algorithm = "UPGMA"
    THEN ClusterSplits(SequentialBuild(loadMatrix(UnpermutedNames, UnpermutedMatrix),
                                       <<>>, DefaultPosition, <<>>).clusters)
    ELSE LET g == StitchBuild(UnpermutedNames, UnpermutedMatrix)
         IN  StitchSplits(g.stitches, g.leafNames)

\* every join of the UPGMA build finds its minimum in one cell only
RECURSIVE UniqueMinima(_, _, _)
UniqueMinima(st, rm, b) ==
    IF 3 < st.row_count
    THEN /\ Cardinality(MinimumCells(st)) = 1
         /\ LET rm2 == getRowMinima(rm, st)
                b2  == getMinimumEntry(b, rm2, st.row_count)
            IN  UniqueMinima(cluster(st, b2.column, b2.row), rm2, b2)
    ELSE TRUE

\* no join of the build has to choose between equal distances
NoTies ==
    IF py.args.algorithm = "UPGMA"
    THEN UniqueMinima(loadMatrix(UnpermutedNames, UnpermutedMatrix), <<>>,
                      DefaultPosition)
    ELSE \A p, q \in Pairs(Len(names)) :
            p # q => UnpermutedMatrix[p[1] * Len(names) + p[2]]
                        # UnpermutedMatrix[q[1] * Len(names) + q[2]]

ScannedRows == {r \in 1..(nextRow - 1) : r \notin scanning}

RankCountsDown ==
    /\ pc = "loop" => row_count = Len(names) - Len(joinLog) /\ 3 <= row_count
    /\ pc = "done" => row_count = 0 /\ Len(joinLog) = Len(names) - 3

\* a pass lowers the rank by one, and finishClustering starts from rank 3
\* and is the step taken there
PassLowersRank ==
    /\ (pc = "loop" /\ pc' = "loop") => row_count' = row_count - 1
    /\ (pc = "loop" /\ pc' = "done") => row_count = 3
    /\ (pc = "loop" /\ row_count = 3) => pc' = "done"

\* C22: for N >= 3 constructTree can only end, and only after N-3 passes:
\* each pass lowers the rank by one, the rank is N less the passes made and
\* never below 3 in the loop, finishClustering starts from rank 3 and
\* leaves rank 0
C22_ConstructTreeTerminates ==
    []RankCountsDown /\ [][PassLowersRank]_vars

\* a build of five taxa has ended after two passes
C22_Witness == pc = "done" /\ Len(names) = 5 /\ Len(joinLog) = 2 /\ row_count = 0

\* ---------------------------------------------------------------------
\* The clusters of the active rows between joins
\* ---------------------------------------------------------------------

\* the sum of the leaf counts of the clusters of rows 0..r-1
RECURSIVE LeafCountOfRows(_)
LeafCountOfRows(r) ==
    IF r = 0 THEN 0
    ELSE clusters[rowToCluster[r - 1]].countOfExteriorNodes + LeafCountOfRows(r - 1)

C24_ContractionKeepsPaths ==
    [][(pc = "stitching" /\ pc' = "built") =>
          \A a, b \in LeafNodes :
              /\ Cardinality(PathLengths(stitches, a, b, {})) = 1
              /\ PathLengths(stitches', a, b, {}) = PathLengths(stitches, a, b, {})]_vars

\* a graph of four leaves from which nodes of degree 2 have been removed
C24_Witness ==
    /\ pc = "built"
    /\ Len(names) = 4
    /\ Cardinality(InteriorNodes) < nodeCount - Len(names)
    /\ \A a, b \in LeafNodes : a # b => Zero \notin PathLengths(stitches, a, b, {})

\* ---------------------------------------------------------------------
\* NearestTaxonClusterJoiningMatrix (stitchup.cpp)
\* ---------------------------------------------------------------------

\* the most taxa of an NTCJ build
MaxNtcjN == 5

\* every input over Distances below the largest rank, a few of that rank
NtcjInputs ==
    UNION {[n : {k}, m : {FlatSymmetric(k, f) : f \in [Pairs(k) -> Distances]}]
           : k \in 3..(MaxNtcjN - 1)}
    \cup [n : {MaxNtcjN},
          m : {Equidistant(MaxNtcjN)} \cup {Scrambled(MaxNtcjN, k) : k \in 1..MaxScramble}]

InitNtcj ==
    /\ pc = "start"
    /\ \E in \in NtcjInputs :
          /\ names  = SubSeq(NamePool, 1, in.n)
          /\ matrix = in.m
    /\ row_count = 0
    /\ rows = <<>>
    /\ rowTotals = <<>>
    /\ rowToCluster = <<>>
    /\ clusters = <<>>
    /\ rowMinima = <<>>
    /\ best = DefaultPosition
    /\ joinLog = <<>>
    /\ threads = 1
    /\ nextRow = 0
    /\ scanning = {}
    /\ StitchIdle
    /\ py = PyIdle
    /\ ExtraIdle

TaxonEdge(t1, t2, dist) == [taxon1 |-> t1, taxon2 |-> t2, length |-> dist]

\* NearestTaxonClusterJoiningMatrix::constructVectorOfEdges:
\* d = rowData[col] - (rowTotals[row] + rowTotals[col]) * multiplier,
\* multiplier being 1.0 / row_count; edges.emplace_back(col, row, d)
constructVectorOfEdges(st) ==
    LET multiplier == RDiv(FromInt(1), FromInt(st.row_count))
    IN  {TaxonEdge(p[2], p[1],
                   RSub(st.rows[p[1]][p[2]],
                        RMul(RAdd(st.rowTotals[p[1]], st.rowTotals[p[2]]), multiplier)))
            : p \in Pairs(st.row_count)}

\* MinHeapOnArray::pop_min on TaxonEdge, whose operator< compares lengths
\* only: any entry that no entry is less than
MinimalEdges(h) == {e \in h : \A o \in h : ~RLess(o.length, e.length)}

\* the do-while loop of constructTreeFromEdgeHeap: the outcomes it can have
RECURSIVE PopEdges(_, _, _, _)
PopEdges(h, tr, iters, hs) ==
    UNION {LET h1     == h \ {shortest}
               iters1 == iters + 1
           IN  IF tr[shortest.taxon1] = tr[shortest.taxon2] /\ iters1 < hs
               THEN PopEdges(h1, tr, iters1, hs)
               ELSE {[shortest |-> shortest, heap |-> h1, iterations |-> iters1]}
           : shortest \in MinimalEdges(h)}

\* NJMatrix::cluster(a, b): the branch lengths and merged distances of NJ,
\* the new cluster in row a, row b removed
njCluster(st, a, b) ==
    LET d       == st.rows[b][a]
        rc      == st.row_count
        aLength == RAdd(RMul(Half, d),
                        RDiv(RSub(st.rowTotals[a], st.rowTotals[b]),
                             FromInt(2 * (rc - 2))))
        bLength == RSub(d, aLength)
        Dc(i)   == RMul(Half, RSub(RAdd(st.rows[a][i], st.rows[b][i]), d))
        merged  == [i \in 0..rc-1 |-> [j \in 0..rc-1 |->
                       IF i = a /\ j # a /\ j # b THEN Dc(j)
                       ELSE IF j = a /\ i # a /\ i # b THEN Dc(i)
                       ELSE st.rows[i][j]]]
        cl      == addCluster2(st.clusters, st.rowToCluster[a], aLength,
                                            st.rowToCluster[b], bLength)
        removed == removeRowAndColumn(
                       [st EXCEPT !.rows = merged, !.clusters = cl,
                                  !.rowToCluster = remapRows(st.rowToCluster, a, b, rc,
                                                             Cardinality(DOMAIN cl) - 1)], b)
    IN  [removed EXCEPT !.rowTotals = calculateRowTotals(removed.rows, removed.row_count)]

\* NJMatrix::finishClustering: the three branches of the last three rows
njFinishClustering(st) ==
    LET M    == st.rows
        l(i, j, k) == RMul(Half, RSub(RAdd(M[i][j], M[i][k]), M[j][k]))
    IN  [st EXCEPT
          !.clusters = addCluster3(st.clusters,
              st.rowToCluster[0], l(0, 1, 2),
              st.rowToCluster[1], l(1, 0, 2),
              st.rowToCluster[2], l(2, 0, 1)),
          !.row_count = 0]

\* a loop over the taxa that leaves the taxa of the former last row alone
RemapTaxaRemovedOnly(tr, r1, r2, rc) ==
    [t \in DOMAIN tr |-> IF tr[t] = r2 THEN r1 ELSE tr[t]]

\* the loop over the taxa after cluster(r1, r2), in which row_count is the
\* rank after the join: the row that was last
RemapTaxa(tr, r1, r2, rc) ==
    [t \in DOMAIN tr |->
        IF tr[t] = r2 THEN r1
        ELSE IF tr[t] = rc THEN r2
        ELSE tr[t]]

\* constructTree up to the call of constructTreeFromEdgeHeap, and that
\* function up to its loop: the heap of edges, tr[t] = t
NtcjBuildHeap ==
    /\ pc = "loaded"
    /\ ntcj.stage = "idle"
    /\ ~(row_count < 3)
    /\ LET edges == constructVectorOfEdges(UpgmaState)
       IN  ntcj' = [stage |-> "joining", heap |-> edges,
                    heap_size |-> Cardinality(edges), iterations |-> 0,
                    taxon_count |-> row_count,
                    taxonToRow |-> [t \in 0..(row_count - 1) |-> t],
                    r1 |-> 0, r2 |-> 0]
    /\ pc' = "ntcj"
    /\ UNCHANGED <<names, matrix, upgmaVars, scanVars, stitchVars, py, mergeJob,
                   vec, flat>>

\* one pass of the loop of constructTreeFromEdgeHeap (isRooted being false)
NtcjJoin ==
    /\ pc = "ntcj"
    /\ 3 < row_count
    /\ ntcj.heap # {}
    /\ \E popped \in PopEdges(ntcj.heap, ntcj.taxonToRow, ntcj.iterations,
                               ntcj.heap_size) :
          LET rA == ntcj.taxonToRow[popped.shortest.taxon1]
              rB == ntcj.taxonToRow[popped.shortest.taxon2]
              r1 == IF rA < rB THEN rA ELSE rB
              r2 == IF rB < rA THEN rA ELSE rB
          IN  /\ SetState(njCluster(UpgmaState, r1, r2))
              /\ ntcj' = [ntcj EXCEPT
                            !.heap = popped.heap,
                            !.iterations = popped.iterations,
                            !.taxonToRow = RemapTaxa(ntcj.taxonToRow, r1, r2,
                                                     row_count - 1),
                            !.r1 = r1, !.r2 = r2]
    /\ UNCHANGED <<pc, names, matrix, rowMinima, best, joinLog, scanVars, stitchVars,
                   py, mergeJob, vec, flat>>

\* the end of constructTreeFromEdgeHeap: finishClustering()
NtcjFinish ==
    /\ pc = "ntcj"
    /\ ~(3 < row_count)
    /\ SetState(njFinishClustering(UpgmaState))
    /\ pc' = "done"
    /\ UNCHANGED <<names, matrix, rowMinima, best, joinLog, scanVars, stitchVars,
                   py, extraVars>>

NextNtcj ==
    \/ LoadMatrix
    \/ NtcjBuildHeap
    \/ NtcjJoin
    \/ NtcjFinish

SpecNtcj == InitNtcj /\ [][NextNtcj]_vars

\* the taxa below the cluster of active row r
TaxaOfRow(r) ==
    {t \in 0..(Len(names) - 1) : names[t + 1] \in LeavesUnder(clusters, rowToCluster[r])}

\* C25: after every join each taxon's entry of the taxon-to-row array is
\* below the rank and is the active row whose cluster holds the taxon, and
\* the join was made between two different rows
C25_TaxonToRowCurrent ==
    (pc = "ntcj" /\ ntcj.iterations > 0) =>
        /\ \A t \in DOMAIN ntcj.taxonToRow :
              /\ ntcj.taxonToRow[t] < row_count
              /\ t \in TaxaOfRow(ntcj.taxonToRow[t])
        /\ ntcj.r1 < ntcj.r2

\* two joins have been made; the second removed a row other than the last,
\* so that the taxa of the last row were moved to it
C25_Witness ==
    /\ pc = "ntcj"
    /\ Len(names) = 5
    /\ row_count = 3
    /\ ntcj.r2 < row_count
    /\ \E t \in DOMAIN ntcj.taxonToRow : ntcj.taxonToRow[t] = ntcj.r2

\* the NJ-adjusted distance of the pair of an edge: the distance less the
\* sum of the two row totals divided by the number of taxa less two
NjAdjusted(e) ==
    RSub(rows[e.taxon2][e.taxon1],
         RDiv(RAdd(rowTotals[e.taxon2], rowTotals[e.taxon1]), FromInt(row_count - 2)))

\* C26: the key of every edge put on the heap is the NJ-adjusted distance
\* of its pair, so that one edge is before another on the heap exactly when
\* its pair is before the other's by the NJ criterion
C26_HeapKeyIsNjCriterion ==
    (pc = "ntcj" /\ ntcj.iterations = 0) =>
        /\ \A e \in ntcj.heap : e.length = NjAdjusted(e)
        /\ \A e, f \in ntcj.heap :
              RLess(e.length, f.length) <=> RLess(NjAdjusted(e), NjAdjusted(f))

----------------------------------------------------------------------------
(* Specification SpecLegs: STITCHUP builds of inputs whose distances differ  *)
(* by more than a factor of three, zero distances included                   *)

MaxLegLeaves == 4

LegInputs ==
    [n : {3}, m : {FlatSymmetric(3, f) : f \in [Pairs(3) -> {0, 1, 4}]}]
    \cup UNION {[n : {k}, m : {FlatSymmetric(k, f) : f \in [Pairs(k) -> {1, 4}]}]
                : k \in 4..MaxLegLeaves}

InitLegs ==
    /\ pc = "start"
    /\ \E in \in LegInputs :
          /\ names  = SubSeq(NamePool, 1, in.n)
          /\ matrix = in.m
    /\ row_count = 0
    /\ rows = <<>>
    /\ rowTotals = <<>>
    /\ rowToCluster = <<>>
    /\ clusters = <<>>
    /\ rowMinima = <<>>
    /\ best = DefaultPosition
    /\ joinLog = <<>>
    /\ threads = 1
    /\ nextRow = 0
    /\ scanning = {}
    /\ StitchIdle
    /\ py = PyIdle
    /\ ExtraIdle

SpecLegs == InitLegs /\ [][NextStitch]_vars

\* C27: for a non-negative input every stitch of the graph, before and after
\* removeThroughThroughNodes, has a length that is not negative, and so has
\* every leg length kept in taxonToDistance
C27_StitchLengthsNonNegative ==
    /\ \A s \in stitches : RLeq(Zero, s.length)
    /\ (pc \in {"stitching", "built", "written"}) =>
          \A t \in DOMAIN taxonToDistance : RLeq(Zero, taxonToDistance[t])

\* a leaf stapled at length 1 and again at length 4, its second leg being
\* (4 - 1/3) * STAPLE_LEG = 11/9, in a graph that has been contracted
C27_Witness ==
    /\ pc = "built"
    /\ \E t \in DOMAIN taxonToDistance : taxonToDistance[t] = Rat(11, 9)
    /\ stitches # {}
    /\ \E s \in stitches : RLess(FromInt(1), s.length)

----------------------------------------------------------------------------
(* Specification SpecInf: UPGMA builds of inputs with distances that are not *)
(* below infiniteDistance                                                    *)

MaxInfN == 5

\* the cells between the first three taxa are 1 or infiniteDistance, every
\* other cell is infiniteDistance, or every other cell is twice that
InfInputs ==
    UNION {[n : {k},
            m : {FlatSymmetric(k, [p \in Pairs(k) |->
                                      IF p[1] <= 2 THEN f[p] ELSE far])
                 : f \in [Pairs(3) -> {1, infiniteDistance[1]}],
                   far \in {infiniteDistance[1], 2 * infiniteDistance[1]}}]
           : k \in 3..MaxInfN}

InitInf ==
    /\ pc = "start"
    /\ \E in \in InfInputs :
          /\ names  = SubSeq(NamePool, 1, in.n)
          /\ matrix = in.m
    /\ row_count = 0
    /\ rows = <<>>
    /\ rowTotals = <<>>
    /\ rowToCluster = <<>>
    /\ clusters = <<>>
    /\ rowMinima = <<>>
    /\ best = DefaultPosition
    /\ joinLog = <<>>
    /\ threads = 1
    /\ nextRow = 0
    /\ scanning = {}
    /\ StitchIdle
    /\ py = PyIdle
    /\ ExtraIdle

SpecInf == InitInf /\ [][Next]_vars

\* C28: in every pass of the join loop the position getMinimumEntry returns
\* has column < row and holds the minimum of the strictly lower triangle,
\* also when no distance is below infiniteDistance
C28_MinimumEntryInTriangle ==
    (pc = "loop" /\ 3 < row_count) =>
        LET b == getMinimumEntry(best, getRowMinima(rowMinima, UpgmaState), row_count)
        IN  /\ b.column < b.row
            /\ <<b.row, b.column>> \in MinimumCells(UpgmaState)
            /\ b.value = rows[b.row][b.column]

----------------------------------------------------------------------------
(* The values at which constructTree joins *)

----------------------------------------------------------------------------
(* FlatMatrix (flatmatrix.cpp): setSize, addCluster and the writing of the   *)
(* matrix.  Of the buffer distanceMatrix the model keeps the number of cells *)
(* and, for a write, the indices at which the buffer was read.               *)

MaxFlatRows  == 3
MaxFlatNames == 4

WriteFormats == {"square", "upper", "lower"}

\* FlatMatrix::FlatMatrix()
FlatMatrixDefault ==
    [stage |-> "made", sequenceNames |-> <<>>, rowCount |-> 0, borrowed |-> FALSE,
     bufferCells |-> 0, nseqs |-> 0, reads |-> {}]

\* FlatMatrix::FlatMatrix(sequence_names, distance_data), distance_data being
\* an array of size * size cells for the names given
FlatMatrixBorrowing(sequence_names) ==
    [stage |-> "made", sequenceNames |-> sequence_names,
     rowCount |-> Len(sequence_names), borrowed |-> TRUE,
     bufferCells |-> Len(sequence_names) * Len(sequence_names),
     nseqs |-> 0, reads |-> {}]

\* FlatMatrix::setSize(rows)
setSize(fm, n) ==
    [fm EXCEPT !.stage = "made", !.borrowed = FALSE, !.rowCount = n,
               !.bufferCells = n * n, !.reads = {}]

\* FlatMatrix::addCluster(clusterName)
flatAddCluster(fm, clusterName) ==
    [fm EXCEPT !.stage = "made", !.sequenceNames = Append(fm.sequenceNames, clusterName),
               !.reads = {}]

\* FlatMatrix::appendRowDistancesToLine: the cells of the buffer it reads,
\* pos starting at seq1 * nseqs + rowStart and going up with seq2
appendRowDistancesToLine(fm, nseqs, seq1, rowStart, rowStop) ==
    {[seq1 |-> seq1, seq2 |-> seq2, pos |-> seq1 * nseqs + rowStart + (seq2 - rowStart)]
        : seq2 \in rowStart..(rowStop - 1)}

\* FlatMatrix::writeDistancesToOpenFile(format, ...)
writeDistancesToOpenFile(fm, format) ==
    LET nseqs == Len(fm.sequenceNames)
        lower == format = "lower"
        upper == format = "upper"
        rowStart(seq1) == IF upper THEN seq1 + 1 ELSE 0
        rowStop(seq1)  == IF lower THEN seq1 ELSE nseqs
    IN  [fm EXCEPT !.stage = "written", !.nseqs = nseqs,
                   !.reads = UNION {appendRowDistancesToLine(fm, nseqs, seq1,
                                        rowStart(seq1), rowStop(seq1))
                                    : seq1 \in 0..(nseqs - 1)}]

InitFlat ==
    /\ pc = "flat"
    /\ names = <<>>
    /\ matrix = <<>>
    /\ row_count = 0
    /\ rows = <<>>
    /\ rowTotals = <<>>
    /\ rowToCluster = <<>>
    /\ clusters = <<>>
    /\ rowMinima = <<>>
    /\ best = DefaultPosition
    /\ joinLog = <<>>
    /\ threads = 1
    /\ nextRow = 0
    /\ scanning = {}
    /\ StitchIdle
    /\ py = PyIdle
    /\ mergeJob = [pairs |-> {}, pending |-> {}]
    /\ vec = [stage |-> "idle"]
    /\ ntcj = [stage |-> "idle"]
    /\ flat \in {FlatMatrixDefault}
                \cup {FlatMatrixBorrowing(SubSeq(NamePool, 1, k)) : k \in 1..MaxFlatRows}

FlatSetSize ==
    /\ pc = "flat"
    /\ \E n \in 0..MaxFlatRows : flat' = setSize(flat, n)
    /\ UNCHANGED <<pc, names, matrix, upgmaVars, scanVars, stitchVars, py, mergeJob,
                   vec, ntcj>>

FlatAddCluster ==
    /\ pc = "flat"
    /\ Len(flat.sequenceNames) < MaxFlatNames
    /\ flat' = flatAddCluster(flat, NamePool[Len(flat.sequenceNames) + 1])
    /\ UNCHANGED <<pc, names, matrix, upgmaVars, scanVars, stitchVars, py, mergeJob,
                   vec, ntcj>>

FlatWrite ==
    /\ pc = "flat"
    /\ \E format \in WriteFormats : flat' = writeDistancesToOpenFile(flat, format)
    /\ UNCHANGED <<pc, names, matrix, upgmaVars, scanVars, stitchVars, py, mergeJob,
                   vec, ntcj>>

NextFlat == FlatSetSize \/ FlatAddCluster \/ FlatWrite

SpecFlat == InitFlat /\ [][NextFlat]_vars

\* C30: after any setSize and addCluster calls a write of the matrix reads
\* only cells inside the rowCount x rowCount buffer, reads the distance of
\* pair (r, c) at index r * rowCount + c, and uses rowCount as row stride
C30_WriteStaysInBuffer ==
    (pc = "flat" /\ flat.stage = "written") =>
        /\ flat.nseqs = flat.rowCount
        /\ \A rd \in flat.reads :
              /\ rd.pos < flat.bufferCells
              /\ rd.pos = rd.seq1 * flat.rowCount + rd.seq2

====
